---- MODULE Spec2Model ----
(***************************************************************************)
(* Water-delivery ordering application: the domain access functions of     *)
(* services/database.ts, the customer booking form (BookingForm) and the   *)
(* vendor order-management view (OrderManagement), over the tables of the  *)
(* persisted schema.  Every remote call of the persistence gateway is one  *)
(* step; its outcome is "ok", "err" (a returned error, data null) or       *)
(* "throw" (a rejected promise).                                           *)
(***************************************************************************)
EXTENDS Integers, Sequences, FiniteSets, TLC

\* ------------------------------------------------------------------ bounds
MaxAddr == 3            \* address rows that can ever exist
InitAddr == 2           \* address rows present initially (at most)
MaxOrders == 2          \* order rows that createOrder can insert
MaxMessages == 1        \* order_messages rows that createOrderMessage can insert
MaxFaults == 1          \* failing remote calls in one run of the views
MaxStock == 10          \* largest initial stock of an inventory item
MaxQty == 4             \* largest quantity of an order line
MaxDeliveries == 3       \* completed transitions to delivered that are counted
MaxDay == 2             \* last day the clock reaches
MaxListed == 2          \* largest stock a vendor sets for a listed item

\* ----------------------------------------------------------------- values
Outcomes == {"ok", "err", "throw"}
Null == "null"
Users == {"u1", "u2"}
AddrIds == 1..MaxAddr
Clients == {1, 2}       \* concurrent address requests
\* updates.isDefault / addressData.isDefault: true, false or absent
DefaultArgs == {"true", "false", "undefined"}

Views == {1, 2}         \* open order-management views of the vendor
Vendors == {"v1", "v2"}
Customers == {"c1", "c2"}
\* orders.status CHECK (status IN (...))
Statuses == {"pending", "acknowledged", "confirmed", "in-transit", "delivered", "cancelled"}
\* const statusOptions of the order-management view
\* the users of the model and the areas the two vendors serve
InitUsers ==
  [u \in Users \cup Vendors \cup Customers |->
     [user_type |-> IF u \in Vendors THEN "vendor" ELSE "customer"]]

InitServiceAreas == <<[vendor_id |-> "v1"], [vendor_id |-> "v2"]>>

statusOptions == {"acknowledged", "confirmed", "in-transit", "delivered", "cancelled"}

VARIABLES
  addresses,     \* table addresses: id -> [user_id, is_default]
  addrCall,      \* per client: the createAddress/updateAddress call in flight
  addrRet,       \* per client: what the last call returned
  inventory,     \* table inventory_items: id -> [vendor_id, price, stock]
  orders,        \* table orders, in creation order: the id is the index
  order_items,   \* table order_items, in insertion order
  order_messages,\* table order_messages, in insertion order
  invoices,      \* table invoices
  users,         \* table users: id -> [user_type]
  service_areas, \* table service_areas: id -> [vendor_id]
  vOrders,       \* per view: the orders state of OrderManagement
  vLoading,      \* per view: the loading state
  vCall,         \* per view: the handler in flight and its closure
  lastRead,      \* what the last composite read returned
  rd,            \* the composite read whose sub-reads are followed one by one
  fSelected,     \* booking form: id of selectedAddress, 0 for null
  fInventory,    \* booking form: the inventory state
  fLoads,        \* booking form: the areas of the loadInventory calls in flight
  fCart,         \* booking form: the cart state
  fTime,         \* booking form: the preferredTime state
  fLoading,      \* booking form: the loading state
  fDate,         \* booking form: the deliveryDate state, a day number, 0 for ''
  today,         \* the current date, a day number
  fSubmitted,    \* history: the form and the date when handleSubmit last called createOrder
  coCall,        \* per caller: the createOrder call in flight
  created,       \* history, per order row: what its createOrder call was given
  prices,        \* history, per item: every price the item has had
  faults,        \* history: the remote calls that have failed so far
  counting,      \* whether this run records deliveredCalls
  lastCall,      \* history: the last direct call of a domain function
  stock0,        \* history: the stock of every item initially
  deliveredCalls \* history: completed updateStatus(order, 'delivered') runs per order

addrVars == <<addresses, addrCall, addrRet>>
refVars == <<users, service_areas>>
dbVars == <<inventory, orders, order_items, order_messages, invoices, refVars>>
viewVars == <<vOrders, vLoading, vCall, lastRead, rd, stock0, deliveredCalls>>
dateVars == <<fDate, today, fSubmitted>>
formVars == <<fSelected, fInventory, fLoads, fCart, fTime, fLoading, coCall, created, prices,
              dateVars>>
envVars == <<faults, counting, lastCall>>

nonAddrVars == <<dbVars, viewVars, formVars>>

vars == <<addrVars, dbVars, viewVars, formVars, envVars>>

\* ============================================================== addresses
NoCall == [fn |-> "none", pc |-> "idle", user |-> Null, id |-> 0,
           isDefault |-> "undefined", failed |-> FALSE, before |-> <<>>]

\* history: the is_default flags of the rows when a request is made
FlagsOf(tbl) == [a \in DOMAIN tbl |-> tbl[a].is_default]

\* failed (here and in addrCall) is history: a remote call of the
\* invocation returned an error or threw
NoRet == [data |-> Null, error |-> Null, failed |-> FALSE]

AddrIdle == \A c \in Clients : addrCall[c].fn = "none"

DefaultsOf(u) == {a \in DOMAIN addresses :
                    addresses[a].user_id = u /\ addresses[a].is_default}

AtMostOneDefault == \A u \in Users : Cardinality(DefaultsOf(u)) <= 1

\* .update({ is_default: false }).eq('user_id', userId)
ClearDefaults(tbl, u) ==
  [a \in DOMAIN tbl |->
     IF tbl[a].user_id = u THEN [tbl[a] EXCEPT !.is_default = FALSE] ELSE tbl[a]]

\* the row createAddress inserts
InsertedAddress(u, isDefault) == [user_id |-> u, is_default |-> (isDefault = "true")]

AddrReturn(c, data, error) ==
  /\ addrRet' = [addrRet EXCEPT ![c] =
        [data |-> data, error |-> error, failed |-> addrCall[c].failed \/ error # Null]]
  /\ addrCall' = [addrCall EXCEPT ![c] = NoCall]

\* createAddress(addressData): entry, up to the first await
createAddress(c, u, d) ==
  /\ addrCall[c].fn = "none"
  /\ d \in {"true", "false"}
  /\ addrCall' = [addrCall EXCEPT ![c] =
        [fn |-> "create", pc |-> IF d = "true" THEN "clear" ELSE "insert",
         user |-> u, id |-> 0, isDefault |-> d, failed |-> FALSE,
         before |-> FlagsOf(addresses)]]
  /\ UNCHANGED <<addresses, addrRet, nonAddrVars>>

\* await supabase.from('addresses').update({is_default:false}).eq('user_id', ...)
\* the result is not looked at; a rejection goes to the catch block
createAddressClear(c, o) ==
  /\ addrCall[c].fn = "create" /\ addrCall[c].pc = "clear"
  /\ addresses' = IF o = "ok" THEN ClearDefaults(addresses, addrCall[c].user)
                  ELSE addresses
  /\ IF o = "throw"
       THEN AddrReturn(c, Null, "exception")
       ELSE /\ addrCall' = [addrCall EXCEPT ![c].pc = "insert",
                                            ![c].failed = @ \/ o = "err"]
            /\ UNCHANGED addrRet
  /\ UNCHANGED nonAddrVars

\* await supabase.from('addresses').insert({...}).select().single()
createAddressInsert(c, o) ==
  /\ addrCall[c].fn = "create" /\ addrCall[c].pc = "insert"
  /\ \/ /\ o = "ok"
        /\ Cardinality(DOMAIN addresses) < MaxAddr
        /\ LET id == Cardinality(DOMAIN addresses) + 1 IN
           /\ addresses' = [a \in DOMAIN addresses \cup {id} |->
                 IF a = id THEN InsertedAddress(addrCall[c].user, addrCall[c].isDefault)
                 ELSE addresses[a]]
           /\ AddrReturn(c, "row", Null)
     \/ /\ o \in {"err", "throw"}
        /\ AddrReturn(c, Null, IF o = "err" THEN "error" ELSE "exception")
        /\ UNCHANGED addresses
  /\ UNCHANGED nonAddrVars

\* updateAddress(id, updates): entry, up to the first await
updateAddress(c, id, d) ==
  /\ addrCall[c].fn = "none"
  /\ addrCall' = [addrCall EXCEPT ![c] =
        [fn |-> "update", pc |-> IF d = "true" THEN "lookup" ELSE "write",
         user |-> Null, id |-> id, isDefault |-> d, failed |-> FALSE,
         before |-> FlagsOf(addresses)]]
  /\ UNCHANGED <<addresses, addrRet, nonAddrVars>>

\* const { data: address } = await ...select('user_id').eq('id', id).single()
\* a returned error leaves address null and the clearing is skipped
updateAddressLookup(c, o) ==
  /\ addrCall[c].fn = "update" /\ addrCall[c].pc = "lookup"
  /\ IF o = "throw"
       THEN AddrReturn(c, Null, "exception")
       ELSE LET found == o = "ok" /\ addrCall[c].id \in DOMAIN addresses IN
            /\ addrCall' = [addrCall EXCEPT
                  ![c].pc = IF found THEN "clear" ELSE "write",
                  ![c].user = IF found THEN addresses[addrCall[c].id].user_id ELSE Null,
                  ![c].failed = @ \/ o = "err"]
            /\ UNCHANGED addrRet
  /\ UNCHANGED <<addresses, nonAddrVars>>

\* await ...update({ is_default: false }).eq('user_id', address.user_id)
updateAddressClear(c, o) ==
  /\ addrCall[c].fn = "update" /\ addrCall[c].pc = "clear"
  /\ addresses' = IF o = "ok" THEN ClearDefaults(addresses, addrCall[c].user)
                  ELSE addresses
  /\ IF o = "throw"
       THEN AddrReturn(c, Null, "exception")
       ELSE /\ addrCall' = [addrCall EXCEPT ![c].pc = "write",
                                            ![c].failed = @ \/ o = "err"]
            /\ UNCHANGED addrRet
  /\ UNCHANGED nonAddrVars

\* the mutant: the write leaves the flag as it is
UpdatedAddressFlagKept(row, d) == row

\* updateData.is_default is set only when updates.isDefault is present
UpdatedAddress(row, d) ==
  IF d = "undefined" THEN row ELSE [row EXCEPT !.is_default = (d = "true")]

\* the mutant: the write makes the row the only default of its user
WrittenAddressesExclusive(tbl, id, d) ==
  [a \in DOMAIN tbl |->
     IF a = id THEN UpdatedAddress(tbl[a], d)
     ELSE IF d = "true" /\ tbl[a].user_id = tbl[id].user_id
          THEN [tbl[a] EXCEPT !.is_default = FALSE]
          ELSE tbl[a]]

\* .update(updateData).eq('id', id): the table after the write
WrittenAddresses(tbl, id, d) == [tbl EXCEPT ![id] = UpdatedAddress(@, d)]

\* await ...update(updateData).eq('id', id).select().single()
\* no row with that id: .single() reports an error
updateAddressWrite(c, o) ==
  /\ addrCall[c].fn = "update" /\ addrCall[c].pc = "write"
  /\ LET id == addrCall[c].id IN
     \/ /\ o = "ok" /\ id \in DOMAIN addresses
        /\ addresses' = WrittenAddresses(addresses, id, addrCall[c].isDefault)
        /\ AddrReturn(c, "row", Null)
     \/ /\ o = "ok" /\ id \notin DOMAIN addresses
        /\ AddrReturn(c, Null, "error")
        /\ UNCHANGED addresses
     \/ /\ o \in {"err", "throw"}
        /\ AddrReturn(c, Null, IF o = "err" THEN "error" ELSE "exception")
        /\ UNCHANGED addresses
  /\ UNCHANGED nonAddrVars

\* ================================================== composite order reads
Max(a, b) == IF a > b THEN a ELSE b

\* the ids of the order rows with row[col] = uid, newest first
\* (.eq(col, uid).order('created_at', { ascending: false }))
RECURSIVE RowsDesc(_, _, _)
RowsDesc(col, uid, n) ==
  IF n = 0 THEN <<>>
  ELSE IF orders[n][col] = uid THEN <<n>> \o RowsDesc(col, uid, n - 1)
       ELSE RowsDesc(col, uid, n - 1)

OrderItemsOf(id) == SelectSeq(order_items, LAMBDA r : r.order_id = id)

OrderMessagesOf(id) == SelectSeq(order_messages, LAMBDA r : r.order_id = id)

NoBad == [order |-> 0, kind |-> "none", how |-> "ok"]

SubReadKinds == {"items", "messages", "address"}

\* one sub-read of one order failing, or none
BadSubReads(ids) ==
  {NoBad} \cup [order : ids, kind : SubReadKinds, how : {"err", "throw"}]

\* { ...order, order_items: itemsResult.data || [], order_messages:
\*   messagesResult.data || [], address: addressResult.data }
OrderWithDetails(id, bad) ==
  LET failed(k) == bad.order = id /\ bad.kind = k IN
  [id |-> id, status |-> orders[id].status, invoice_id |-> orders[id].invoice_id,
   order_items |-> IF failed("items") THEN <<>> ELSE OrderItemsOf(id),
   order_messages |-> IF failed("messages") THEN <<>> ELSE OrderMessagesOf(id),
   address |-> IF failed("address") THEN 0 ELSE orders[id].address_id]

NullRead(fn, uid, matched, error) ==
  [fn |-> fn, uid |-> uid, matched |-> matched, primary |-> IF error = Null THEN "ok" ELSE "failed",
   dataNull |-> TRUE, data |-> <<>>, error |-> error, subReads |-> 0, bad |-> NoBad]

\* the failing sub-read, if the read issues it: rows are the ids matched
IssuedBad(rows, bad) ==
  IF \E k \in 1..Len(rows) : rows[k] = bad.order THEN bad ELSE NoBad

\* the mutant: no rows is reported as a null result
GetOrdersNullWhenEmpty(fn, col, uid, o, bad) ==
  LET rows == RowsDesc(col, uid, Len(orders))
      b == IssuedBad(rows, bad) IN
  IF o # "ok" THEN NullRead(fn, uid, Len(rows), "error")
  ELSE IF rows = <<>> THEN NullRead(fn, uid, 0, Null)
  ELSE [fn |-> fn, uid |-> uid, matched |-> Len(rows), primary |-> "ok",
        dataNull |-> FALSE,
        data |-> [k \in 1..Len(rows) |-> OrderWithDetails(rows[k], b)],
        error |-> Null, subReads |-> 3 * Len(rows), bad |-> b]

\* the mutant: a sub-read that returns an error fails the whole read
GetOrdersStrict(fn, col, uid, o, bad) ==
  LET rows == RowsDesc(col, uid, Len(orders))
      b == IssuedBad(rows, bad) IN
  IF o # "ok" THEN NullRead(fn, uid, Len(rows), "error")
  ELSE IF rows = <<>> THEN
    [fn |-> fn, uid |-> uid, matched |-> 0, primary |-> "ok", dataNull |-> FALSE,
     data |-> <<>>, error |-> Null, subReads |-> 0, bad |-> NoBad]
  ELSE IF b.how # "ok" THEN
    [NullRead(fn, uid, Len(rows), "error") EXCEPT !.subReads = 3 * Len(rows),
                                                  !.primary = "ok", !.bad = b]
  ELSE
    [fn |-> fn, uid |-> uid, matched |-> Len(rows), primary |-> "ok",
     dataNull |-> FALSE,
     data |-> [k \in 1..Len(rows) |-> OrderWithDetails(rows[k], b)],
     error |-> Null, subReads |-> 3 * Len(rows), bad |-> b]

\* getOrdersByCustomer (col = customer_id) and getOrdersByVendor (col =
\* vendor_id): o is the outcome of the primary query, bad the failing sub-read
GetOrders(fn, col, uid, o, bad) ==
  LET rows == RowsDesc(col, uid, Len(orders))
      b == IssuedBad(rows, bad) IN
  IF o = "throw" THEN NullRead(fn, uid, Len(rows), "exception")
  ELSE IF o = "err" THEN NullRead(fn, uid, Len(rows), "error")
  ELSE IF rows = <<>> THEN
    [fn |-> fn, uid |-> uid, matched |-> 0, primary |-> "ok", dataNull |-> FALSE,
     data |-> <<>>, error |-> Null, subReads |-> 0, bad |-> NoBad]
  ELSE IF b.how = "throw" THEN
    [NullRead(fn, uid, Len(rows), "exception") EXCEPT !.subReads = 3 * Len(rows),
                                                      !.primary = "ok", !.bad = b]
  ELSE
    [fn |-> fn, uid |-> uid, matched |-> Len(rows), primary |-> "ok",
     dataNull |-> FALSE,
     data |-> [k \in 1..Len(rows) |-> OrderWithDetails(rows[k], b)],
     error |-> Null, subReads |-> 3 * Len(rows), bad |-> b]

getOrdersByVendor(uid, o, bad) == GetOrders("getOrdersByVendor", "vendor_id", uid, o, bad)

getOrdersByCustomer(uid, o, bad) == GetOrders("getOrdersByCustomer", "customer_id", uid, o, bad)

OrderIdSet == 1..Len(orders)

\* a caller other than the order-management view reads a user's orders
readOrders(fn, uid, o, bad) ==
  /\ \/ fn = "getOrdersByVendor" /\ uid \in Vendors
        /\ lastRead' = getOrdersByVendor(uid, o, bad)
     \/ fn = "getOrdersByCustomer" /\ uid \in Customers
        /\ lastRead' = getOrdersByCustomer(uid, o, bad)
  /\ UNCHANGED <<addrVars, formVars, dbVars, vOrders, vLoading, vCall, rd, stock0,
                 deliveredCalls>>

\* -------------------------------------------- the sub-reads one by one
\* rows: the ids the primary query returned; pending: the sub-reads not yet
\* completed, as <<position, kind>>; the results sit at the position of
\* their order; finished: the positions in the order in which the orders'
\* three sub-reads were complete
NoRd == [pc |-> "idle", fn |-> "none", uid |-> Null, rows |-> <<>>, pending |-> {},
         items |-> <<>>, messages |-> <<>>, address |-> <<>>, finished |-> <<>>]

ReadCol(fn) == IF fn = "getOrdersByVendor" THEN "vendor_id" ELSE "customer_id"

\* the primary query of a composite read; with rows, the three sub-reads of
\* every row are issued together (Promise.all over orders.map)
readStart(fn, uid, o) ==
  /\ rd.pc \in {"idle", "returned"}
  /\ LET rows == RowsDesc(ReadCol(fn), uid, Len(orders)) IN
     IF o = "ok" /\ rows # <<>>
     THEN /\ rd' = [NoRd EXCEPT !.pc = "sub", !.fn = fn, !.uid = uid, !.rows = rows,
                                !.pending = (1..Len(rows)) \X SubReadKinds]
          /\ UNCHANGED lastRead
     ELSE /\ rd' = [NoRd EXCEPT !.pc = "returned", !.fn = fn, !.uid = uid]
          /\ lastRead' = GetOrders(fn, ReadCol(fn), uid, o, NoBad)
  /\ UNCHANGED <<addrVars, formVars, dbVars, vOrders, vLoading, vCall, stock0, deliveredCalls>>

\* f with the value x at k
Put(f, k, x) == [j \in DOMAIN f \cup {k} |-> IF j = k THEN x ELSE f[j]]

\* the mutant: the entries in the order in which the orders were complete
EntryPositionsAsFinished(r) == r.finished

\* Promise.all resolves to the results in the order of its promises
EntryPositions(r) == [k \in 1..Len(r.rows) |-> k]

\* { ...order, order_items: itemsResult.data || [], order_messages:
\*   messagesResult.data || [], address: addressResult.data } for every order
Assembled(r) ==
  LET pos == EntryPositions(r) IN
  [k \in 1..Len(pos) |->
     LET j == pos[k] IN
     [id |-> r.rows[j], status |-> orders[r.rows[j]].status,
      invoice_id |-> orders[r.rows[j]].invoice_id,
      order_items |-> r.items[j], order_messages |-> r.messages[j],
      address |-> r.address[j]]]

\* one sub-read completes, in any order: a returned error leaves its field
\* at the default; a rejection rejects the whole Promise.all and the catch
\* block returns; with the last sub-read the function returns the list
subReadDone(k, kind, o) ==
  /\ rd.pc = "sub" /\ <<k, kind>> \in rd.pending
  /\ LET id == rd.rows[k]
         pending == rd.pending \ {<<k, kind>>}
         r == [rd EXCEPT
                 !.pending = pending,
                 !.items = IF kind = "items"
                           THEN Put(@, k, IF o = "ok" THEN OrderItemsOf(id) ELSE <<>>) ELSE @,
                 !.messages = IF kind = "messages"
                              THEN Put(@, k, IF o = "ok" THEN OrderMessagesOf(id) ELSE <<>>)
                              ELSE @,
                 !.address = IF kind = "address"
                             THEN Put(@, k, IF o = "ok" THEN orders[id].address_id ELSE 0)
                             ELSE @,
                 !.finished = IF \E x \in pending : x[1] = k THEN @ ELSE Append(@, k)] IN
     IF o = "throw"
     THEN /\ rd' = [rd EXCEPT !.pc = "returned"]
          /\ lastRead' = [NullRead(rd.fn, rd.uid, Len(rd.rows), "exception")
                            EXCEPT !.subReads = 3 * Len(rd.rows), !.primary = "ok"]
     ELSE IF pending = {}
     THEN /\ rd' = [r EXCEPT !.pc = "returned"]
          /\ lastRead' = [fn |-> rd.fn, uid |-> rd.uid, matched |-> Len(rd.rows),
                          primary |-> "ok", dataNull |-> FALSE, data |-> Assembled(r),
                          error |-> Null, subReads |-> 3 * Len(rd.rows), bad |-> NoBad]
     ELSE /\ rd' = r
          /\ UNCHANGED lastRead
  /\ UNCHANGED <<addrVars, formVars, dbVars, vOrders, vLoading, vCall, stock0, deliveredCalls>>

\* ====================================================== updateOrderStatus
\* outcome: how the remote call of the function went
NoDirectCall == [fn |-> "none", caller |-> Null, arg |-> 0, status |-> "none",
                 before |-> "none", outcome |-> "none", error |-> Null]

\* policy "Vendors can update orders in their area":
\* USING (vendor_id = get_user_id_from_auth())
VendorCanUpdate(caller, id) == orders[id].vendor_id = caller

\* an update that refuses to leave the final states
StoredStatusUnlessFinal(tbl, id, status) ==
  IF tbl[id].status \in {"delivered", "cancelled"} THEN tbl
  ELSE [tbl EXCEPT ![id].status = status]

\* updateOrderStatus(id, status): .update({ status }).eq('id', id)
StoredStatus(tbl, id, status) == [tbl EXCEPT ![id].status = status]

\* updateOrderStatus(id, status) called by a signed-in user: the update of
\* the rows the policy lets through, then .select().single(), which reports
\* an error when no row comes back
updateOrderStatus(caller, id, status, o) ==
  LET hit == o = "ok" /\ id \in 1..Len(orders) /\ VendorCanUpdate(caller, id) IN
  /\ orders' = IF hit THEN StoredStatus(orders, id, status) ELSE orders
  /\ lastCall' = [fn |-> "updateOrderStatus", caller |-> caller, arg |-> id,
                  status |-> status,
                  before |-> IF id \in 1..Len(orders) THEN orders[id].status ELSE "none",
                  outcome |-> o,
                  error |-> IF hit THEN Null
                            ELSE IF o = "throw" THEN "exception" ELSE "error"]
  /\ UNCHANGED <<addrVars, formVars, inventory, order_items, order_messages, invoices, refVars,
                 viewVars>>

\* ======================================================= delete functions
Restrict(tbl, keep) == [x \in keep |-> tbl[x]]

\* .delete().eq(...): the table without the rows the filter and the
\* table's delete policy select
DeleteWhere(tbl, gone) == Restrict(tbl, DOMAIN tbl \ gone)

\* ON DELETE CASCADE of a column that refers to a row that is gone
CascadeRows(tbl, col, gone) == {x \in DOMAIN tbl : tbl[x][col] \in gone}

CascadeSeq(rows, col, gone) == SelectSeq(rows, LAMBDA r : r[col] \notin gone)

DirectDelete(fn, caller, arg, before, o) ==
  [fn |-> fn, caller |-> caller, arg |-> arg, status |-> "none", before |-> before,
   outcome |-> o,
   error |-> IF o = "ok" THEN Null ELSE IF o = "err" THEN "error" ELSE "exception"]

\* deleteUser(id): .from('users').delete().eq('id', id); policy "Users can
\* delete own account"; addresses, service areas, inventory items and
\* orders (with their items, messages and invoices) of the user cascade
deleteUser(caller, id, o) ==
  LET gone == IF o = "ok" THEN {u \in DOMAIN users : u = id /\ u = caller} ELSE {}
      goneOrders == CascadeRows(orders, "customer_id", gone)
                      \cup CascadeRows(orders, "vendor_id", gone) IN
  /\ users' = DeleteWhere(users, gone)
  /\ addresses' = DeleteWhere(addresses, CascadeRows(addresses, "user_id", gone))
  /\ service_areas' = DeleteWhere(service_areas, CascadeRows(service_areas, "vendor_id", gone))
  /\ inventory' = DeleteWhere(inventory, CascadeRows(inventory, "vendor_id", gone))
  /\ orders' = DeleteWhere(orders, goneOrders)
  /\ order_items' = CascadeSeq(order_items, "order_id", goneOrders)
  /\ order_messages' = CascadeSeq(order_messages, "order_id", goneOrders)
  /\ invoices' = CascadeSeq(invoices, "order_id", goneOrders)
  /\ lastCall' = DirectDelete("deleteUser", caller, id, users, o)
  /\ UNCHANGED <<addrCall, addrRet, formVars, viewVars>>

\* deleteAddress(id): .from('addresses').delete().eq('id', id); policy
\* "Users can delete own addresses"
deleteAddress(caller, id, o) ==
  LET gone == IF o = "ok"
              THEN {a \in DOMAIN addresses : a = id /\ addresses[a].user_id = caller}
              ELSE {} IN
  /\ addresses' = DeleteWhere(addresses, gone)
  /\ lastCall' = DirectDelete("deleteAddress", caller, id, addresses, o)
  /\ UNCHANGED <<addrCall, addrRet, formVars, dbVars, viewVars>>

\* deleteInventoryItem(id): .from('inventory_items').delete().eq('id', id);
\* policy "Vendors can delete their inventory items"
deleteInventoryItem(caller, id, o) ==
  LET gone == IF o = "ok"
              THEN {i \in DOMAIN inventory : i = id /\ inventory[i].vendor_id = caller}
              ELSE {} IN
  /\ inventory' = DeleteWhere(inventory, gone)
  /\ lastCall' = DirectDelete("deleteInventoryItem", caller, id, inventory, o)
  /\ UNCHANGED <<addrVars, formVars, orders, order_items, order_messages, invoices,
                 refVars, viewVars>>

\* deleteServiceArea(vendorId): .from('service_areas').delete()
\* .eq('vendor_id', vendorId); policy "Vendors can delete their service areas"
deleteServiceArea(caller, vendorId, o) ==
  LET gone == IF o = "ok"
              THEN {a \in DOMAIN service_areas :
                      service_areas[a].vendor_id = vendorId
                      /\ service_areas[a].vendor_id = caller}
              ELSE {} IN
  /\ service_areas' = DeleteWhere(service_areas, gone)
  /\ lastCall' = DirectDelete("deleteServiceArea", caller, vendorId, service_areas, o)
  /\ UNCHANGED <<addrVars, formVars, inventory, orders, order_items, order_messages,
                 invoices, users, viewVars>>

\* ================================================= order-management view
ViewUser == "v1"        \* useAuth().user.id of every view

NoOrder == [id |-> 0, status |-> "none", items |-> <<>>, invoiceId |-> Null]

NoView == [fn |-> "none", pc |-> "idle", orderId |-> 0, status |-> "none",
           order |-> NoOrder, inv |-> <<>>, idx |-> 0]

\* loadOrders: database rows to application orders
\* (id: item.inventory_item_id || item.id)
TransformOrder(d) ==
  [id |-> d.id, status |-> d.status,
   items |-> [k \in 1..Len(d.order_items) |->
                [id |-> d.order_items[k].inventory_item_id,
                 quantity |-> d.order_items[k].quantity]],
   invoiceId |-> d.invoice_id]

TransformedOrders(data) == [k \in 1..Len(data) |-> TransformOrder(data[k])]

\* orders.find(o => o.id === orderId)
FindOrder(list, id) ==
  LET hits == {k \in 1..Len(list) : list[k].id = id} IN
  IF hits = {} THEN NoOrder ELSE list[CHOOSE k \in hits : \A j \in hits : k <= j]

\* the status controls OrderManagement renders for an order: the five
\* buttons for a pending order, the <select> (whose onChange fires on a
\* value other than the shown one) for any other order but a cancelled one
StatusControls(order) ==
  IF order.status = "pending" THEN statusOptions
  ELSE IF order.status # "cancelled" THEN statusOptions \ {order.status}
  ELSE {}

\* {!order.invoiceId && order.status !== 'cancelled' && <button ...>}
InvoiceControl(order) == order.invoiceId = Null /\ order.status # "cancelled"

\* the mutant: the subtraction without the clamp
NewStockUnclamped(stock, quantity) == stock - quantity

\* Math.max(0, inventoryItem.stock - orderItem.quantity)
NewStock(stock, quantity) == Max(0, stock - quantity)

\* the first order line at or after idx that inventoryData.find(...) matches
RECURSIVE NextLine(_, _, _)
NextLine(items, inv, idx) ==
  IF idx > Len(items) THEN idx
  ELSE IF items[idx].id \in DOMAIN inv THEN idx
  ELSE NextLine(items, inv, idx + 1)

\* finally { setLoading(false) } and the end of the handler
ViewDone(v) ==
  /\ vCall' = [vCall EXCEPT ![v] = NoView]
  /\ vLoading' = [vLoading EXCEPT ![v] = FALSE]
  /\ deliveredCalls' =
       IF counting /\ vCall[v].fn = "updateStatus" /\ vCall[v].status = "delivered"
          /\ vCall[v].pc # "status"
       THEN [deliveredCalls EXCEPT ![vCall[v].orderId] =
               IF @ < MaxDeliveries THEN @ + 1 ELSE @]
       ELSE deliveredCalls

\* updateStatus(orderId, status) from a status button or the dropdown:
\* setLoading(true); the closure holds the rendered orders
updateStatus(v, id, status) ==
  /\ vCall[v].fn = "none" /\ ~vLoading[v]
  /\ LET order == FindOrder(vOrders[v], id) IN
     /\ order.id = id
     /\ status \in StatusControls(order)
     /\ vCall' = [vCall EXCEPT ![v] =
          [NoView EXCEPT !.fn = "updateStatus", !.pc = "status", !.orderId = id,
                         !.status = status, !.order = order]]
  /\ vLoading' = [vLoading EXCEPT ![v] = TRUE]
  /\ UNCHANGED <<addrVars, formVars, dbVars, vOrders, lastRead, rd, stock0, deliveredCalls>>

\* a transition that would adjust the inventory on confirmed as well
AdjustsInventoryEarly(status) == status \in {"confirmed", "delivered"}

\* if (status === 'delivered')
AdjustsInventory(status) == status = "delivered"

\* the mutant: the handler goes on after a returned error
GoesOnAfterError(o) == o # "throw"

\* if (!error) { ... }: a returned error skips the rest, a rejection goes
\* to the catch block
GoesOn(o) == o = "ok"

\* const { error } = await updateOrderStatus(orderId, status)
updateStatusWrite(v, o) ==
  /\ vCall[v].fn = "updateStatus" /\ vCall[v].pc = "status"
  /\ orders' = IF o = "ok" THEN StoredStatus(orders, vCall[v].orderId, vCall[v].status)
               ELSE orders
  /\ IF GoesOn(o)
       THEN /\ vCall' = [vCall EXCEPT ![v].pc =
                 IF AdjustsInventory(vCall[v].status) THEN "inventory" ELSE "reload"]
            /\ UNCHANGED <<vLoading, deliveredCalls>>
       ELSE ViewDone(v)
  /\ UNCHANGED <<addrVars, formVars, inventory, order_items, order_messages, invoices, refVars,
                 vOrders, lastRead, rd, stock0>>

\* the mutant: the inventory as first loaded, not re-read
VendorInventoryCached(vendor) ==
  [i \in {j \in DOMAIN inventory : inventory[j].vendor_id = vendor} |-> stock0[i]]

\* getInventoryByVendor(vendorId): the rows of that vendor, or null
VendorInventory(vendor) ==
  [i \in {j \in DOMAIN inventory : inventory[j].vendor_id = vendor} |-> inventory[i].stock]

\* const { data: inventoryData } = await getInventoryByVendor(user!.id)
updateStatusInventory(v, o) ==
  /\ vCall[v].fn = "updateStatus" /\ vCall[v].pc = "inventory"
  /\ IF o = "ok"
       THEN LET inv == VendorInventory(ViewUser)
                idx == NextLine(vCall[v].order.items, inv, 1) IN
            vCall' = [vCall EXCEPT ![v].inv = inv, ![v].idx = idx,
                        ![v].pc = IF idx > Len(vCall[v].order.items)
                                  THEN "reload" ELSE "items"]
       ELSE vCall' = [vCall EXCEPT ![v].pc = "reload"]
  /\ UNCHANGED <<addrVars, formVars, dbVars, vOrders, vLoading, lastRead, rd, stock0, deliveredCalls>>

\* the mutant: the stock as stored at the moment of the write
StockReadLive(v, i) == inventory[i].stock

\* inventoryItem.stock of inventoryData.find(item => item.id === orderItem.id):
\* the stock as the handler's getInventoryByVendor returned it
StockRead(v, i) == vCall[v].inv[i]

\* await updateInventoryItem(inventoryItem.id, { stock: newStock }); the
\* result is not looked at
updateStatusItem(v, o) ==
  /\ vCall[v].fn = "updateStatus" /\ vCall[v].pc = "items"
  /\ LET items == vCall[v].order.items
         line == items[vCall[v].idx]
         idx == NextLine(items, vCall[v].inv, vCall[v].idx + 1) IN
     /\ inventory' =
          IF o = "ok"
          THEN [inventory EXCEPT ![line.id].stock =
                  NewStock(StockRead(v, line.id), line.quantity)]
          ELSE inventory
     /\ vCall' = [vCall EXCEPT ![v].idx = idx,
                    ![v].pc = IF idx > Len(items) THEN "reload" ELSE "items"]
  /\ UNCHANGED <<addrVars, formVars, orders, order_items, order_messages, invoices, refVars,
                 vOrders, vLoading, lastRead, rd, stock0, deliveredCalls>>

\* await loadOrders(): setOrders(...) only if (!error && orderData)
LoadedOrders(v, r) ==
  IF r.error = Null /\ ~r.dataNull THEN TransformedOrders(r.data) ELSE vOrders[v]

\* the reload that ends updateStatus, generateInvoice and sendMessage
viewReload(v, o, bad) ==
  /\ vCall[v].fn \in {"updateStatus", "generateInvoice", "sendMessage"}
  /\ vCall[v].pc = "reload"
  /\ vOrders' = [vOrders EXCEPT ![v] =
                   LoadedOrders(v, getOrdersByVendor(ViewUser, o, bad))]
  /\ IF vCall[v].fn = "updateStatus"
       THEN ViewDone(v)
       ELSE /\ vCall' = [vCall EXCEPT ![v] = NoView]
            /\ UNCHANGED <<vLoading, deliveredCalls>>
  /\ UNCHANGED <<addrVars, formVars, dbVars, lastRead, rd, stock0>>

\* loadOrders() on its own (useEffect)
loadOrders(v, o, bad) ==
  /\ vCall[v].fn = "none"
  /\ vOrders' = [vOrders EXCEPT ![v] =
                   LoadedOrders(v, getOrdersByVendor(ViewUser, o, bad))]
  /\ UNCHANGED <<addrVars, formVars, dbVars, vLoading, vCall, lastRead, rd, stock0, deliveredCalls>>

\* generateInvoice(order): the button of a rendered order
generateInvoice(v, id) ==
  /\ vCall[v].fn = "none"
  /\ LET order == FindOrder(vOrders[v], id) IN
     /\ order.id = id
     /\ InvoiceControl(order)
     /\ vCall' = [vCall EXCEPT ![v] =
          [NoView EXCEPT !.fn = "generateInvoice", !.pc = "status", !.orderId = id,
                         !.status = order.status, !.order = order]]
  /\ UNCHANGED <<addrVars, formVars, dbVars, vOrders, vLoading, lastRead, rd, stock0, deliveredCalls>>

\* const { error } = await updateOrderStatus(order.id, order.status)
generateInvoiceWrite(v, o) ==
  /\ vCall[v].fn = "generateInvoice" /\ vCall[v].pc = "status"
  /\ IF o = "ok"
       THEN /\ orders' = StoredStatus(orders, vCall[v].orderId, vCall[v].status)
            /\ vCall' = [vCall EXCEPT ![v].pc = "reload"]
       ELSE /\ vCall' = [vCall EXCEPT ![v] = NoView]
            /\ UNCHANGED orders
  /\ UNCHANGED <<addrVars, formVars, inventory, order_items, order_messages, invoices, refVars,
                 vOrders, vLoading, lastRead, rd, stock0, deliveredCalls>>

\* sendMessage(orderId) of a rendered order, with a non-blank newMessage
sendMessage(v, id) ==
  /\ vCall[v].fn = "none"
  /\ LET order == FindOrder(vOrders[v], id) IN
     /\ order.id = id
     /\ vCall' = [vCall EXCEPT ![v] =
          [NoView EXCEPT !.fn = "sendMessage", !.pc = "message", !.orderId = id,
                         !.order = order]]
  /\ UNCHANGED <<addrVars, formVars, dbVars, vOrders, vLoading, lastRead, rd, stock0, deliveredCalls>>

\* const { error } = await createOrderMessage({ orderId, sender: 'vendor', ... })
sendMessageWrite(v, o) ==
  /\ vCall[v].fn = "sendMessage" /\ vCall[v].pc = "message"
  /\ IF o = "ok"
       THEN /\ Len(order_messages) < MaxMessages
            /\ order_messages' = Append(order_messages, [order_id |-> vCall[v].orderId])
            /\ vCall' = [vCall EXCEPT ![v].pc = "reload"]
       ELSE /\ vCall' = [vCall EXCEPT ![v] = NoView]
            /\ UNCHANGED order_messages
  /\ UNCHANGED <<addrVars, formVars, inventory, orders, order_items, invoices, refVars,
                 vOrders, vLoading, lastRead, rd, stock0, deliveredCalls>>

\* ============================================================ createOrder
Callers == {"form", "other"}

NoOrderData == [customerId |-> Null, vendorId |-> Null, areaId |-> 0, addressId |-> 0,
                items |-> <<>>, total |-> 0, status |-> "none", deliveryDate |-> 0,
                preferredTime |-> ""]

\* result: the data field of the returned pair ("order" for the inserted row)
NoCreate == [pc |-> "idle", data |-> NoOrderData, orderId |-> 0, result |-> Null,
             error |-> Null]

\* the mutant: the insert passes orderData.status on
InsertedOrderWithStatus(d) ==
  [customer_id |-> d.customerId, vendor_id |-> d.vendorId, area_id |-> d.areaId,
   address_id |-> d.addressId, total |-> d.total, delivery_date |-> d.deliveryDate,
   preferred_time |-> d.preferredTime, status |-> d.status, invoice_id |-> Null]

\* the row .from('orders').insert({...}) stores: the insert names no status,
\* so the column default 'pending' applies; invoice_id is null
InsertedOrder(d) ==
  [customer_id |-> d.customerId, vendor_id |-> d.vendorId, area_id |-> d.areaId,
   address_id |-> d.addressId, total |-> d.total, delivery_date |-> d.deliveryDate,
   preferred_time |-> d.preferredTime, status |-> "pending", invoice_id |-> Null]

\* the mutant: the rows take the live price of the inventory item
InsertedItemsLivePrice(id, items) ==
  [k \in 1..Len(items) |->
     [order_id |-> id, inventory_item_id |-> items[k].id,
      quantity |-> items[k].quantity, price |-> inventory[items[k].id].price]]

\* orderData.items.map(item => ({ order_id: order.id, inventory_item_id:
\*   item.id, name, quantity: item.quantity, price: item.price }))
InsertedItems(id, items) ==
  [k \in 1..Len(items) |->
     [order_id |-> id, inventory_item_id |-> items[k].id,
      quantity |-> items[k].quantity, price |-> items[k].price]]

CreatesInFlight == Cardinality({k \in Callers : coCall[k].pc \in {"vendor", "order"}})

\* createOrder(orderData): entry, up to the first await
createOrderCall(k, d) ==
  /\ coCall[k].pc = "idle"
  /\ Len(orders) + CreatesInFlight < MaxOrders
  /\ coCall' = [coCall EXCEPT ![k] = [NoCreate EXCEPT !.pc = "vendor", !.data = d]]

\* const { data: vendor } = await ...from('users').select('name')...single()
\* only the name is used (vendor?.name || 'Unknown Vendor')
createOrderVendor(k, o) ==
  /\ coCall[k].pc = "vendor"
  /\ coCall' = [coCall EXCEPT ![k] =
        IF o = "throw" THEN [@ EXCEPT !.pc = "returned", !.error = "exception"]
        ELSE [@ EXCEPT !.pc = "order"]]
  /\ UNCHANGED <<addrVars, dbVars, viewVars, fSelected, fInventory, fLoads, fCart,
                 fTime, fLoading, created, prices, dateVars>>

\* await ...from('orders').insert({...}).select().single(); the column
\* delivery_date is date NOT NULL, so '' is rejected with an error
createOrderInsert(k, o) ==
  /\ coCall[k].pc = "order"
  /\ LET d == coCall[k].data
         id == Len(orders) + 1 IN
     IF o = "ok" /\ d.deliveryDate # 0
     THEN /\ orders' = Append(orders, InsertedOrder(d))
          /\ created' = Append(created,
               [caller |-> k, n |-> Len(d.items), items |-> d.items, status |-> d.status,
                livePrice |-> [i \in DOMAIN inventory |-> inventory[i].price]])
          /\ coCall' = [coCall EXCEPT ![k] =
               IF Len(d.items) > 0 THEN [@ EXCEPT !.pc = "items", !.orderId = id]
               ELSE [@ EXCEPT !.pc = "returned", !.orderId = id, !.result = "order"]]
     ELSE /\ coCall' = [coCall EXCEPT ![k] =
               [@ EXCEPT !.pc = "returned",
                         !.error = IF o = "err" THEN "error" ELSE "exception"]]
          /\ UNCHANGED <<orders, created, dateVars>>
  /\ UNCHANGED <<addrVars, inventory, order_items, order_messages, invoices, refVars, viewVars,
                 fSelected, fInventory, fLoads, fCart, fTime, fLoading, prices, dateVars>>

\* a compensating delete of the order row just inserted
OrdersRolledBack(tbl, id) == SubSeq(tbl, 1, id - 1) \o SubSeq(tbl, id + 1, Len(tbl))

\* the orders table after the items insert of order id failed: the
\* function only returns the error
OrdersAfterItemsError(tbl, id) == tbl

\* const { error: itemsError } = await ...from('order_items').insert(orderItems)
\* on an error the function returns it; the order row stays
createOrderItems(k, o) ==
  /\ coCall[k].pc = "items"
  /\ IF o = "ok"
     THEN /\ order_items' = order_items \o InsertedItems(coCall[k].orderId, coCall[k].data.items)
          /\ coCall' = [coCall EXCEPT ![k].pc = "returned", ![k].result = "order"]
          /\ UNCHANGED orders
     ELSE /\ coCall' = [coCall EXCEPT ![k] =
               [@ EXCEPT !.pc = "returned",
                         !.error = IF o = "err" THEN "error" ELSE "exception"]]
          /\ orders' = OrdersAfterItemsError(orders, coCall[k].orderId)
          /\ UNCHANGED order_items
  /\ UNCHANGED <<addrVars, inventory, order_messages, invoices, refVars, viewVars,
                 fSelected, fInventory, fLoads, fCart, fTime, fLoading, created, prices, dateVars>>

\* a caller other than the booking form calls createOrder and drops the result
otherCreateOrder(d) ==
  /\ createOrderCall("other", d)
  /\ UNCHANGED <<addrVars, dbVars, viewVars, fSelected, fInventory, fLoads, fCart,
                 fTime, fLoading, created, prices, dateVars>>

otherCreateOrderDone ==
  /\ coCall["other"].pc = "returned"
  /\ coCall' = [coCall EXCEPT !["other"] = NoCreate]
  /\ UNCHANGED <<addrVars, dbVars, viewVars, fSelected, fInventory, fLoads, fCart,
                 fTime, fLoading, created, prices, dateVars>>

\* the vendor whose price updates are followed
PricingVendor == "v1"

\* updateInventoryItem(id, { price }) by the item's vendor; an item takes
\* each price of Prices once
updatePrice(i, p, o) ==
  /\ i \in DOMAIN inventory
  /\ inventory[i].vendor_id = PricingVendor
  /\ p \notin prices[i]
  /\ IF o = "ok"
     THEN /\ inventory' = [inventory EXCEPT ![i].price = p]
          /\ prices' = [prices EXCEPT ![i] = @ \cup {p}]
     ELSE UNCHANGED <<inventory, prices, dateVars>>
  /\ UNCHANGED <<addrVars, orders, order_items, order_messages, invoices, refVars, viewVars,
                 fSelected, fInventory, fLoads, fCart, fTime, fLoading, coCall, created, dateVars>>

\* updateInventoryItem(id, { stock }) by the item's vendor
updateStock(i, st, o) ==
  /\ i \in DOMAIN inventory
  /\ st # inventory[i].stock
  /\ inventory' = IF o = "ok" THEN [inventory EXCEPT ![i].stock = st] ELSE inventory
  /\ UNCHANGED <<addrVars, orders, order_items, order_messages, invoices, refVars, viewVars,
                 formVars>>

\* createOrderMessage(messageData) of either party, on an order that exists
\* (order_messages.order_id references orders)
createOrderMessage(id, o) ==
  /\ id \in 1..Len(orders)
  /\ Len(order_messages) < MaxMessages
  /\ order_messages' = IF o = "ok" THEN Append(order_messages, [order_id |-> id])
                        ELSE order_messages
  /\ UNCHANGED <<addrVars, inventory, orders, order_items, invoices, refVars, viewVars,
                 fSelected, fInventory, fLoads, fCart, fTime, fLoading, coCall,
                 created, prices, dateVars>>

\* ============================================================ booking form
FormUser == "c1"        \* useAuth().user.id of the booking form

\* user.addresses of the form's user
userAddresses == <<[id |-> 1, areaId |-> 1, isDefault |-> TRUE],
                   [id |-> 2, areaId |-> 2, isDefault |-> FALSE]>>

\* user.addresses.find(addr => addr.isDefault) || user.addresses[0]
DefaultAddress ==
  LET d == {k \in 1..Len(userAddresses) : userAddresses[k].isDefault} IN
  IF d = {} THEN userAddresses[1].id
  ELSE userAddresses[CHOOSE k \in d : \A j \in d : k <= j].id

AddressArea(id) == userAddresses[id].areaId

\* preferredTime: empty, blank, or a time
Times == {"", " ", "8pm"}

Trim(t) == IF t = " " THEN "" ELSE t

\* getInventoryByArea(areaId) mapped to InventoryItem[]: the items of the
\* area's vendor
AreaInventory(area) ==
  LET ids == {i \in DOMAIN inventory : inventory[i].vendor_id = service_areas[area].vendor_id}
      RECURSIVE list(_)
      list(n) == IF n = 0 THEN <<>>
                 ELSE IF n \in ids
                      THEN list(n - 1) \o <<[id |-> n, price |-> inventory[n].price,
                                             stock |-> inventory[n].stock,
                                             vendorId |-> inventory[n].vendor_id]>>
                      ELSE list(n - 1)
  IN list(Len(inventory))

\* setSelectedAddress(address) and the effect on [selectedAddress]
setSelectedAddress(id) ==
  /\ id \in 1..Len(userAddresses) /\ id # fSelected
  /\ fSelected' = id
  /\ fLoads' = fLoads \cup {AddressArea(id)}
  /\ UNCHANGED <<addrVars, dbVars, viewVars, fInventory, fCart, fTime, fLoading,
                 coCall, created, prices, dateVars>>

\* loadInventory(areaId): setInventory(...) only if (!error && data)
loadInventory(area, o) ==
  /\ area \in fLoads
  /\ fLoads' = fLoads \ {area}
  /\ fInventory' = IF o = "ok" THEN AreaInventory(area) ELSE fInventory
  /\ UNCHANGED <<addrVars, dbVars, viewVars, fSelected, fCart, fTime, fLoading,
                 coCall, created, prices, dateVars>>

CartIndex(cart, id) == {k \in 1..Len(cart) : cart[k].id = id}

\* getCartQuantity(itemId)
getCartQuantity(cart, id) ==
  IF CartIndex(cart, id) = {} THEN 0 ELSE cart[CHOOSE k \in CartIndex(cart, id) : TRUE].quantity

\* addToCart(item): the new cart
AddToCart(cart, item) ==
  IF item.stock = 0 THEN cart
  ELSE IF CartIndex(cart, item.id) # {}
    THEN [k \in 1..Len(cart) |->
            IF cart[k].id = item.id /\ cart[k].quantity < item.stock
            THEN [cart[k] EXCEPT !.quantity = @ + 1] ELSE cart[k]]
    ELSE Append(cart, [id |-> item.id, quantity |-> 1, price |-> item.price])

\* the "Add to Cart" button of a listed item (shown while it is not in the cart)
addToCart(k) ==
  /\ k \in 1..Len(fInventory)
  /\ getCartQuantity(fCart, fInventory[k].id) = 0
  /\ fInventory[k].stock # 0
  /\ fCart' = AddToCart(fCart, fInventory[k])
  /\ UNCHANGED <<addrVars, dbVars, viewVars, fSelected, fInventory, fLoads, fTime,
                 fLoading, coCall, created, prices, dateVars>>

\* updateCartQuantity(itemId, quantity): the new cart
UpdateCartQuantity(cart, inv, id, quantity) ==
  LET hits == {k \in 1..Len(inv) : inv[k].id = id} IN
  IF hits = {} THEN cart
  ELSE LET item == inv[CHOOSE k \in hits : \A j \in hits : k <= j] IN
       IF quantity <= 0 THEN SelectSeq(cart, LAMBDA c : c.id # id)
       ELSE IF quantity <= item.stock
         THEN [k \in 1..Len(cart) |->
                 IF cart[k].id = id THEN [cart[k] EXCEPT !.quantity = quantity] ELSE cart[k]]
         ELSE cart

\* the minus and plus buttons of a listed item that is in the cart
updateCartQuantity(k, delta) ==
  /\ k \in 1..Len(fInventory)
  /\ LET q == getCartQuantity(fCart, fInventory[k].id) IN
     /\ q > 0
     /\ delta = 1 => q < fInventory[k].stock
     /\ fCart' = UpdateCartQuantity(fCart, fInventory, fInventory[k].id, q + delta)
  /\ fCart' # fCart
  /\ UNCHANGED <<addrVars, dbVars, viewVars, fSelected, fInventory, fLoads, fTime,
                 fLoading, coCall, created, prices, dateVars>>

setPreferredTime(t) ==
  /\ t # fTime
  /\ fTime' = t
  /\ UNCHANGED <<addrVars, dbVars, viewVars, fSelected, fInventory, fLoads, fCart,
                 fLoading, coCall, created, prices, dateVars>>

\* const tomorrow = new Date(); tomorrow.setDate(tomorrow.getDate() + 1);
\* tomorrow.toISOString().split('T')[0]
Tomorrow(day) == day + 1

\* onChange={(e) => setDeliveryDate(e.target.value)}: any date the input
\* can hold, or none; the min attribute marks an earlier date invalid and
\* does not keep it out of the value; no handler reads the validity
setDeliveryDate(d) ==
  /\ d \in 0..MaxDay + 1 /\ d # fDate
  /\ fDate' = d
  /\ UNCHANGED <<addrVars, dbVars, viewVars, fSelected, fInventory, fLoads, fCart, fTime,
                 fLoading, coCall, created, prices, today, fSubmitted>>

\* midnight passes
tick ==
  /\ today < MaxDay
  /\ today' = today + 1
  /\ UNCHANGED <<addrVars, dbVars, viewVars, fSelected, fInventory, fLoads, fCart, fTime,
                 fLoading, coCall, created, prices, fDate, fSubmitted>>

NoSubmit == [day |-> 0, selected |-> 0, date |-> 0, time |-> "", cart |-> <<>>]

\* cart.reduce((total, item) => total + (item.price * item.quantity), 0)
RECURSIVE CartTotal(_, _)
CartTotal(cart, n) ==
  IF n = 0 THEN 0 ELSE CartTotal(cart, n - 1) + cart[n].price * cart[n].quantity

getTotalPrice(cart) == CartTotal(cart, Len(cart))

\* the mutant: the vendor that owns the selected address's area
ResolveVendorByArea(inv) ==
  IF Len(inv) = 0 THEN Null ELSE service_areas[AddressArea(fSelected)].vendor_id

\* const vendorId = inventory[0]?.vendorId
ResolveVendor(inv) == IF Len(inv) = 0 THEN Null ELSE inv[1].vendorId

\* the argument of createOrder in handleSubmit
SubmittedOrder(vendorId) ==
  [customerId |-> FormUser, vendorId |-> vendorId, areaId |-> AddressArea(fSelected),
   addressId |-> fSelected, items |-> fCart, total |-> getTotalPrice(fCart),
   status |-> "pending", deliveryDate |-> fDate, preferredTime |-> fTime]

\* the checks without the trim: a blank preferred time passes
PassesChecksUntrimmed(selected, cart, time) ==
  ~(selected = 0 \/ Len(cart) = 0) /\ ~(time = "")

\* if (!selectedAddress || cart.length === 0) { alert; return }
\* if (!preferredTime.trim()) { alert; return }
PassesChecks(selected, cart, time) ==
  ~(selected = 0 \/ Len(cart) = 0) /\ ~(Trim(time) = "")

\* handleSubmit up to the await of createOrder ("Place Order" is disabled
\* while loading); the alerts leave every state as it is
handleSubmit ==
  /\ coCall["form"].pc = "idle"
  /\ LET vendorId == ResolveVendor(fInventory) IN
     IF ~PassesChecks(fSelected, fCart, fTime) \/ vendorId = Null
     THEN UNCHANGED <<coCall, fLoading, fSubmitted>>
     ELSE /\ createOrderCall("form", SubmittedOrder(vendorId))
          /\ fLoading' = TRUE
          /\ fSubmitted' = [day |-> today, selected |-> fSelected, date |-> fDate,
                            time |-> fTime, cart |-> fCart]
  /\ UNCHANGED <<addrVars, dbVars, viewVars, fSelected, fInventory, fLoads, fCart,
                 fTime, created, prices, fDate, today>>

\* the form is cleared whatever createOrder returned
CartClearedAlways(cart, error) == <<>>

\* if (orderError) { alert; return } ... setCart([]); a rejection is
\* caught and only alerted
CartAfterSubmit(cart, error) == IF error = Null THEN <<>> ELSE cart

\* the mutant: the error paths return with the flag as it is
LoadingKeptOnError(error) == error # Null

\* if (orderError) { ...; setLoading(false); return } and
\* finally { setLoading(false) }: the flag when handleSubmit ends
LoadingAfterSubmit(error) == FALSE

\* handleSubmit after the await: on an error the form is left as it is;
\* else setCart([]), setPreferredTime(''); finally setLoading(false)
handleSubmitDone ==
  /\ coCall["form"].pc = "returned"
  /\ coCall' = [coCall EXCEPT !["form"] = NoCreate]
  /\ fLoading' = LoadingAfterSubmit(coCall["form"].error)
  /\ fCart' = CartAfterSubmit(fCart, coCall["form"].error)
  /\ fTime' = IF coCall["form"].error = Null THEN "" ELSE fTime
  /\ UNCHANGED <<addrVars, dbVars, viewVars, fSelected, fInventory, fLoads,
                 created, prices, dateVars>>

\* =========================================================== initial states
\* the address tables a store can hold with at most one default per user
InitAddresses ==
  {t \in UNION {[1..n -> [user_id : Users, is_default : BOOLEAN]] : n \in 0..InitAddr} :
     \A u \in Users :
       Cardinality({a \in DOMAIN t : t[a].user_id = u /\ t[a].is_default}) <= 1}

NoRead == NullRead("none", Null, 0, Null)

\* no booking form is open and no createOrder call is in flight
QuietForm ==
  /\ fSelected = 0 /\ fInventory = <<>> /\ fLoads = {} /\ fCart = <<>>
  /\ fTime = "" /\ fLoading = FALSE
  /\ fDate = 0 /\ today = 1 /\ fSubmitted = NoSubmit
  /\ coCall = [k \in Callers |-> NoCreate]
  /\ created = <<>>
  /\ prices = [i \in DOMAIN inventory |-> {inventory[i].price}]

QuietAddr ==
  /\ addrCall = [c \in Clients |-> NoCall]
  /\ addrRet = [c \in Clients |-> NoRet]

QuietViews ==
  /\ faults = 0
  /\ counting = FALSE /\ lastCall = NoDirectCall
  /\ vOrders = [v \in Views |-> <<>>]
  /\ vLoading = [v \in Views |-> FALSE]
  /\ vCall = [v \in Views |-> NoView]
  /\ lastRead = NoRead /\ rd = NoRd
  /\ deliveredCalls = [o \in OrderIdSet |-> 0]
  /\ stock0 = [i \in DOMAIN inventory |-> inventory[i].stock]
  /\ QuietForm

EmptyDb ==
  /\ inventory = <<>>
  /\ orders = <<>>
  /\ order_items = <<>>
  /\ order_messages = <<>>
  /\ invoices = <<>> /\ users = InitUsers /\ service_areas = InitServiceAreas

\* an order row as createOrder inserts it (status: the column default)
OrderRow(customer, vendor, area, address) ==
  [customer_id |-> customer, vendor_id |-> vendor, area_id |-> area,
   address_id |-> address, status |-> "pending", invoice_id |-> Null]

OrderItemRow(order, item, quantity, price) ==
  [order_id |-> order, inventory_item_id |-> item, quantity |-> quantity, price |-> price]

\* the store a vendor works on: items 1 and 2 are the vendor's, item 3 is
\* another vendor's; one pending order of the vendor has a line of each
InitVendorDb ==
  /\ \E s1 \in {MaxStock, 1} :
       inventory = <<[vendor_id |-> "v1", price |-> 1, stock |-> s1],
                     [vendor_id |-> "v1", price |-> 1, stock |-> 1],
                     [vendor_id |-> "v2", price |-> 1, stock |-> 1]>>
  /\ orders = <<OrderRow("c1", "v1", 1, 1)>>
  /\ \E q1 \in {MaxQty} :
       order_items = <<OrderItemRow(1, 1, q1, 1), OrderItemRow(1, 3, 1, 1),
                       OrderItemRow(1, 2, 1, 1)>>
  /\ order_messages = <<>>
  /\ invoices = <<>> /\ users = InitUsers /\ service_areas = InitServiceAreas

\* the same vendor with two pending orders that both have a line of item 1
InitDeliver ==
  /\ addresses = <<>> /\ QuietAddr
  /\ inventory = <<[vendor_id |-> "v1", price |-> 1, stock |-> MaxStock]>>
  /\ orders = <<OrderRow("c1", "v1", 1, 1), OrderRow("c2", "v1", 1, 1)>>
  /\ order_items = <<OrderItemRow(1, 1, MaxQty, 1), OrderItemRow(2, 1, MaxQty - 1, 1)>>
  /\ order_messages = <<>>
  /\ invoices = <<>> /\ users = InitUsers /\ service_areas = InitServiceAreas
  /\ QuietViews

\* one user with two addresses, the first the default
RaceUser == "u1"

InitAddrRace ==
  /\ addresses = <<[user_id |-> RaceUser, is_default |-> TRUE],
                   [user_id |-> RaceUser, is_default |-> FALSE]>>
  /\ QuietAddr /\ EmptyDb /\ QuietViews

InitAddr_ == addresses \in InitAddresses /\ QuietAddr /\ EmptyDb /\ QuietViews

InitVendor == addresses = <<>> /\ QuietAddr /\ InitVendorDb /\ QuietViews

\* the same store, in a run that counts the completed transitions to delivered
InitVendorSeq ==
  /\ addresses = <<>> /\ QuietAddr /\ InitVendorDb
  /\ faults = 0 /\ counting = TRUE /\ lastCall = NoDirectCall
  /\ vOrders = [v \in Views |-> <<>>]
  /\ vLoading = [v \in Views |-> FALSE]
  /\ vCall = [v \in Views |-> NoView]
  /\ lastRead = NoRead /\ rd = NoRd
  /\ deliveredCalls = [o \in OrderIdSet |-> 0]
  /\ stock0 = [i \in DOMAIN inventory |-> inventory[i].stock]
  /\ QuietForm

\* the order tables a composite read can meet: up to two pending orders,
\* each with one line of item 1 and one message
InitRead ==
  /\ addresses = <<>> /\ QuietAddr
  /\ inventory = <<[vendor_id |-> "v1", price |-> 20, stock |-> 1]>>
  /\ invoices = <<>> /\ users = InitUsers /\ service_areas = InitServiceAreas
  /\ \E n \in 0..2 :
       /\ orders \in [1..n -> {OrderRow(c, v, 1, 1) : c \in Customers, v \in Vendors}]
       /\ order_items = [k \in 1..n |-> OrderItemRow(k, 1, 1, 20)]
       /\ order_messages = [k \in 1..n |-> [order_id |-> k]]
  /\ QuietViews

\* the store a customer books from: item 1 is vendor v1's (area 1), item 2
\* vendor v2's (area 2); the form has mounted: the default address is
\* selected and its loadInventory is in flight
Prices == {20, 25}

OtherOrders ==
  {[customerId |-> "c2", vendorId |-> "v2", areaId |-> 2, addressId |-> 2,
    items |-> it, total |-> 0, status |-> st, deliveryDate |-> 2, preferredTime |-> "8pm"] :
     it \in {<<>>, <<[id |-> 2, quantity |-> 1, price |-> 20]>>},
     st \in {"pending", "delivered"}}

BookingDb ==
  /\ addresses = <<>>
  /\ addrCall = [c \in Clients |-> NoCall]
  /\ addrRet = [c \in Clients |-> NoRet]
  /\ inventory = <<[vendor_id |-> "v1", price |-> 20, stock |-> 2],
                   [vendor_id |-> "v2", price |-> 20, stock |-> 1]>>
  /\ orders = <<>> /\ order_items = <<>> /\ order_messages = <<>> /\ invoices = <<>> /\ users = InitUsers /\ service_areas = InitServiceAreas
  /\ faults = 0 /\ counting = FALSE /\ lastCall = NoDirectCall
  /\ vOrders = [v \in Views |-> <<>>]
  /\ vLoading = [v \in Views |-> FALSE]
  /\ vCall = [v \in Views |-> NoView]
  /\ lastRead = NoRead /\ rd = NoRd
  /\ deliveredCalls = [o \in OrderIdSet |-> 0]
  /\ stock0 = [i \in DOMAIN inventory |-> inventory[i].stock]

InitBooking ==
  /\ BookingDb
  /\ fSelected = DefaultAddress
  /\ fLoads = {AddressArea(DefaultAddress)}
  /\ fInventory = <<>> /\ fCart = <<>> /\ fTime = "" /\ fLoading = FALSE
  /\ today = 1 /\ fDate = Tomorrow(today) /\ fSubmitted = NoSubmit
  /\ coCall = [k \in Callers |-> NoCreate]
  /\ created = <<>>
  /\ prices = [i \in DOMAIN inventory |-> {inventory[i].price}]

\* a vendor with one pending order of one line has the views open; no
\* booking form is open
InitLiveViews ==
  /\ addresses = <<>> /\ QuietAddr
  /\ inventory = <<[vendor_id |-> "v1", price |-> 20, stock |-> 2],
                   [vendor_id |-> "v2", price |-> 20, stock |-> 1]>>
  /\ orders = <<OrderRow("c1", "v1", 1, 1)>>
  /\ order_items = <<OrderItemRow(1, 1, 1, 20)>>
  /\ order_messages = <<>>
  /\ invoices = <<>> /\ users = InitUsers /\ service_areas = InitServiceAreas
  /\ QuietViews

\* a customer whose addresses lie in the areas of other vendors than the
\* one whose views are followed; the booking form has mounted
InitLiveForm ==
  /\ addresses = <<>> /\ QuietAddr
  /\ inventory = <<[vendor_id |-> "v2", price |-> 20, stock |-> 2]>>
  /\ orders = <<>> /\ order_items = <<>> /\ order_messages = <<>>
  /\ invoices = <<>> /\ users = InitUsers
  /\ service_areas = <<[vendor_id |-> "v2"], [vendor_id |-> "v2"]>>
  /\ faults = 0 /\ counting = FALSE /\ lastCall = NoDirectCall
  /\ vOrders = [v \in Views |-> <<>>]
  /\ vLoading = [v \in Views |-> FALSE]
  /\ vCall = [v \in Views |-> NoView]
  /\ lastRead = NoRead /\ rd = NoRd
  /\ deliveredCalls = [o \in OrderIdSet |-> 0]
  /\ stock0 = [i \in DOMAIN inventory |-> inventory[i].stock]
  /\ fSelected = DefaultAddress
  /\ fLoads = {AddressArea(DefaultAddress)}
  /\ fInventory = <<>> /\ fCart = <<>> /\ fTime = "" /\ fLoading = FALSE
  /\ today = 1 /\ fDate = Tomorrow(today) /\ fSubmitted = NoSubmit
  /\ coCall = [k \in Callers |-> NoCreate]
  /\ created = <<>>
  /\ prices = [i \in DOMAIN inventory |-> {inventory[i].price}]

InitLive == InitLiveViews \/ InitLiveForm

\* ============================================================ specifications
\* the environment: a remote call fails only while fewer than MaxFaults
\* calls have failed
Fault(o) ==
  /\ \/ o = "ok" /\ faults' = faults
     \/ o # "ok" /\ faults < MaxFaults /\ faults' = faults + 1
  /\ UNCHANGED <<counting, lastCall>>

NoFault == UNCHANGED envVars

\* requests of any clients, their steps interleaved, every outcome
NextAddr ==
  \/ \E c \in Clients, u \in Users, d \in DefaultArgs : NoFault /\ createAddress(c, u, d)
  \/ \E c \in Clients, o \in Outcomes : NoFault /\ createAddressClear(c, o)
  \/ \E c \in Clients, o \in Outcomes : NoFault /\ createAddressInsert(c, o)
  \/ \E c \in Clients, id \in AddrIds, d \in DefaultArgs : NoFault /\ updateAddress(c, id, d)
  \/ \E c \in Clients, o \in Outcomes : NoFault /\ updateAddressLookup(c, o)
  \/ \E c \in Clients, o \in Outcomes : NoFault /\ updateAddressClear(c, o)
  \/ \E c \in Clients, o \in Outcomes : NoFault /\ updateAddressWrite(c, o)

SpecAddr == InitAddr_ /\ [][NextAddr]_vars

\* default-setting requests of one user from two clients, their steps
\* interleaved, every remote call succeeding
NextAddrRace ==
  \/ \E c \in Clients : NoFault /\ createAddress(c, RaceUser, "true")
  \/ \E c \in Clients : NoFault /\ createAddressClear(c, "ok")
  \/ \E c \in Clients : NoFault /\ createAddressInsert(c, "ok")
  \/ \E c \in Clients, id \in DOMAIN addresses : NoFault /\ updateAddress(c, id, "true")
  \/ \E c \in Clients : NoFault /\ updateAddressLookup(c, "ok")
  \/ \E c \in Clients : NoFault /\ updateAddressClear(c, "ok")
  \/ \E c \in Clients : NoFault /\ updateAddressWrite(c, "ok")

SpecAddrRace == InitAddrRace /\ [][NextAddrRace]_vars

\* one request at a time, every remote write succeeds; the lookup read of
\* updateAddress may fail
NextAddrSeq ==
  \/ \E c \in Clients, u \in Users, d \in DefaultArgs :
       NoFault /\ AddrIdle /\ createAddress(c, u, d)
  \/ \E c \in Clients : NoFault /\ createAddressClear(c, "ok")
  \/ \E c \in Clients : NoFault /\ createAddressInsert(c, "ok")
  \/ \E c \in Clients, id \in AddrIds, d \in DefaultArgs :
       NoFault /\ AddrIdle /\ updateAddress(c, id, d)
  \/ \E c \in Clients, o \in Outcomes : NoFault /\ updateAddressLookup(c, o)
  \/ \E c \in Clients : NoFault /\ updateAddressClear(c, "ok")
  \/ \E c \in Clients : NoFault /\ updateAddressWrite(c, "ok")

SpecAddrSeq == InitAddr_ /\ [][NextAddrSeq]_vars

\* one request at a time, every outcome of every remote call
NextAddrFail ==
  \/ \E c \in Clients, u \in Users, d \in DefaultArgs :
       NoFault /\ AddrIdle /\ createAddress(c, u, d)
  \/ \E c \in Clients, o \in Outcomes : NoFault /\ createAddressClear(c, o)
  \/ \E c \in Clients, o \in Outcomes : NoFault /\ createAddressInsert(c, o)
  \/ \E c \in Clients, id \in AddrIds, d \in DefaultArgs :
       NoFault /\ AddrIdle /\ updateAddress(c, id, d)
  \/ \E c \in Clients, o \in Outcomes : NoFault /\ updateAddressLookup(c, o)
  \/ \E c \in Clients, o \in Outcomes : NoFault /\ updateAddressClear(c, o)
  \/ \E c \in Clients, o \in Outcomes : NoFault /\ updateAddressWrite(c, o)

SpecAddrFail == InitAddr_ /\ [][NextAddrFail]_vars

ViewsIdle == \A v \in Views : vCall[v].fn = "none"

\* the sub-read that fails in a composite read whose primary query had
\* outcome o: none when the primary query failed (no sub-read is issued)
ReadFaults(o) ==
  IF o = "ok" THEN BadSubReads(OrderIdSet) ELSE {NoBad}

ReadFault(o, bad) ==
  /\ \/ o = "ok" /\ bad = NoBad /\ faults' = faults
     \/ (o # "ok" \/ bad # NoBad) /\ faults < MaxFaults /\ faults' = faults + 1
  /\ UNCHANGED <<counting, lastCall>>

\* the views of one vendor, their handlers' steps interleaved, every outcome
NextVendor ==
  \/ \E v \in Views, id \in OrderIdSet, st \in Statuses : NoFault /\ updateStatus(v, id, st)
  \/ \E v \in Views, o \in Outcomes : Fault(o) /\ updateStatusWrite(v, o)
  \/ \E v \in Views, o \in Outcomes : Fault(o) /\ updateStatusInventory(v, o)
  \/ \E v \in Views, o \in Outcomes : Fault(o) /\ updateStatusItem(v, o)
  \/ \E v \in Views, o \in Outcomes : \E bad \in ReadFaults(o) :
       ReadFault(o, bad) /\ viewReload(v, o, bad)
  \/ \E v \in Views, o \in Outcomes : \E bad \in ReadFaults(o) :
       ReadFault(o, bad) /\ loadOrders(v, o, bad)
  \/ \E v \in Views, id \in OrderIdSet : NoFault /\ generateInvoice(v, id)
  \/ \E v \in Views, o \in Outcomes : Fault(o) /\ generateInvoiceWrite(v, o)

SpecVendor == InitVendor /\ [][NextVendor]_vars

\* one handler at a time, every remote call succeeds
NextVendorSeq ==
  \/ \E v \in Views, id \in OrderIdSet, st \in Statuses :
       NoFault /\ ViewsIdle /\ updateStatus(v, id, st)
  \/ \E v \in Views : NoFault /\ updateStatusWrite(v, "ok")
  \/ \E v \in Views : NoFault /\ updateStatusInventory(v, "ok")
  \/ \E v \in Views : NoFault /\ updateStatusItem(v, "ok")
  \/ \E v \in Views : NoFault /\ viewReload(v, "ok", NoBad)
  \/ \E v \in Views : NoFault /\ ViewsIdle /\ loadOrders(v, "ok", NoBad)
  \/ \E v \in Views, id \in OrderIdSet : NoFault /\ ViewsIdle /\ generateInvoice(v, id)
  \/ \E v \in Views : NoFault /\ generateInvoiceWrite(v, "ok")

SpecVendorSeq == InitVendorSeq /\ [][NextVendorSeq]_vars

\* the environment of a direct call: the fault budget alone
Budget(o) ==
  /\ \/ o = "ok" /\ faults' = faults
     \/ o # "ok" /\ faults < MaxFaults /\ faults' = faults + 1
  /\ UNCHANGED counting

\* direct calls of updateOrderStatus by the order's vendor and by another
\* vendor, for stored and unknown order ids, every target status, every outcome
NextStatus ==
  \E caller \in Vendors, id \in 1..(Len(orders) + 1), st \in Statuses, o \in Outcomes :
    Budget(o) /\ updateOrderStatus(caller, id, st, o)

SpecStatus == InitVendor /\ [][NextStatus]_vars

\* the store the delete functions work on: customer c1 has two addresses,
\* c2 one; vendor v1 has two items and serves two areas, v2 one of each;
\* no order refers to any of these rows
InitDelete ==
  /\ addresses = <<[user_id |-> "c1", is_default |-> TRUE],
                   [user_id |-> "c1", is_default |-> FALSE],
                   [user_id |-> "c2", is_default |-> TRUE]>>
  /\ QuietAddr
  /\ inventory = <<[vendor_id |-> "v1", price |-> 20, stock |-> 1],
                   [vendor_id |-> "v1", price |-> 20, stock |-> 1],
                   [vendor_id |-> "v2", price |-> 20, stock |-> 1]>>
  /\ orders = <<>> /\ order_items = <<>> /\ order_messages = <<>> /\ invoices = <<>>
  /\ users = InitUsers
  /\ service_areas = <<[vendor_id |-> "v1"], [vendor_id |-> "v1"], [vendor_id |-> "v2"]>>
  /\ QuietViews

DeleteCallers == {"c1", "v1", "v2"}

\* direct calls of the four delete functions by signed-in users, for ids of
\* their own rows, of other users' rows and of no row, every outcome
NextDelete ==
  \/ \E caller \in DeleteCallers, id \in DeleteCallers, o \in Outcomes :
       Budget(o) /\ deleteUser(caller, id, o)
  \/ \E caller \in DeleteCallers, id \in 1..4, o \in Outcomes :
       Budget(o) /\ deleteAddress(caller, id, o)
  \/ \E caller \in DeleteCallers, id \in 1..4, o \in Outcomes :
       Budget(o) /\ deleteInventoryItem(caller, id, o)
  \/ \E caller \in DeleteCallers, vendorId \in Vendors, o \in Outcomes :
       Budget(o) /\ deleteServiceArea(caller, vendorId, o)

SpecDelete == InitDelete /\ [][NextDelete]_vars

\* two views of the vendor marking orders as delivered, the steps of their
\* handlers interleaved, every outcome
NextDeliver ==
  \/ \E v \in Views, id \in OrderIdSet : NoFault /\ updateStatus(v, id, "delivered")
  \/ \E v \in Views, o \in Outcomes : Fault(o) /\ updateStatusWrite(v, o)
  \/ \E v \in Views, o \in Outcomes : Fault(o) /\ updateStatusInventory(v, o)
  \/ \E v \in Views, o \in Outcomes : Fault(o) /\ updateStatusItem(v, o)
  \/ \E v \in Views, o \in Outcomes : \E bad \in ReadFaults(o) :
       ReadFault(o, bad) /\ viewReload(v, o, bad)
  \/ \E v \in Views, o \in Outcomes : \E bad \in ReadFaults(o) :
       ReadFault(o, bad) /\ ViewsIdle /\ loadOrders(v, o, bad)

SpecDeliver == InitDeliver /\ [][NextDeliver]_vars

\* every handler of the views, messages included, one handler at a time,
\* every outcome
NextVendorMsg ==
  \/ \E v \in Views, id \in OrderIdSet, st \in Statuses :
       NoFault /\ ViewsIdle /\ updateStatus(v, id, st)
  \/ \E v \in Views, o \in Outcomes : Fault(o) /\ updateStatusWrite(v, o)
  \/ \E v \in Views, o \in Outcomes : Fault(o) /\ updateStatusInventory(v, o)
  \/ \E v \in Views, o \in Outcomes : Fault(o) /\ updateStatusItem(v, o)
  \/ \E v \in Views, o \in Outcomes : \E bad \in ReadFaults(o) :
       ReadFault(o, bad) /\ viewReload(v, o, bad)
  \/ \E v \in Views, o \in Outcomes : \E bad \in ReadFaults(o) :
       ReadFault(o, bad) /\ ViewsIdle /\ loadOrders(v, o, bad)
  \/ \E v \in Views, id \in OrderIdSet : NoFault /\ ViewsIdle /\ generateInvoice(v, id)
  \/ \E v \in Views, o \in Outcomes : Fault(o) /\ generateInvoiceWrite(v, o)
  \/ \E v \in Views, id \in OrderIdSet : NoFault /\ ViewsIdle /\ sendMessage(v, id)
  \/ \E v \in Views, o \in Outcomes : Fault(o) /\ sendMessageWrite(v, o)

SpecVendorMsg == InitVendor /\ [][NextVendorMsg]_vars

\* composite reads of any user, every outcome
NextRead ==
  \E fn \in {"getOrdersByVendor", "getOrdersByCustomer"}, uid \in Vendors \cup Customers,
     o \in Outcomes : \E bad \in ReadFaults(o) : NoFault /\ readOrders(fn, uid, o, bad)

SpecRead == InitRead /\ [][NextRead]_vars

\* composite reads of any user with their sub-reads completing one by one
\* in any order, every outcome
NextReadSteps ==
  \/ \E fn \in {"getOrdersByVendor", "getOrdersByCustomer"}, uid \in Vendors \cup Customers,
        o \in Outcomes :
       /\ fn = "getOrdersByVendor" <=> uid \in Vendors
       /\ Fault(o) /\ readStart(fn, uid, o)
  \/ \E k \in 1..Len(orders), kind \in SubReadKinds, o \in Outcomes :
       Fault(o) /\ subReadDone(k, kind, o)

SpecReadSteps == InitRead /\ [][NextReadSteps]_vars

\* one booking form, followed until its first order is stored, and the
\* price updates of the vendor of area 1 (those that succeed), their steps
\* interleaved, every outcome of the form's remote calls
NextBooking ==
  \/ \E id \in 1..Len(userAddresses) : NoFault /\ setSelectedAddress(id)
  \/ \E area \in 1..Len(service_areas), o \in Outcomes : Fault(o) /\ loadInventory(area, o)
  \/ \E k \in 1..Len(inventory) : NoFault /\ addToCart(k)
  \/ \E k \in 1..Len(inventory), delta \in {-1, 1} : NoFault /\ updateCartQuantity(k, delta)
  \/ \E t \in Times : NoFault /\ setPreferredTime(t)
  \/ NoFault /\ orders = <<>> /\ handleSubmit
  \/ NoFault /\ handleSubmitDone
  \/ \E o \in Outcomes : Fault(o) /\ createOrderVendor("form", o)
  \/ \E o \in Outcomes : Fault(o) /\ createOrderInsert("form", o)
  \/ \E o \in Outcomes : Fault(o) /\ createOrderItems("form", o)
  \/ \E i \in 1..Len(inventory), p \in Prices : NoFault /\ updatePrice(i, p, "ok")

SpecBooking == InitBooking /\ [][NextBooking]_vars

\* one booking form at its default address over days, followed until its
\* first order is stored: the date and time edits, the cart, the
\* submissions and every outcome of their remote calls
NextDate ==
  \/ \E d \in 0..MaxDay + 1 : NoFault /\ setDeliveryDate(d)
  \/ NoFault /\ tick
  \/ \E area \in 1..Len(service_areas), o \in Outcomes : Fault(o) /\ loadInventory(area, o)
  \/ \E k \in 1..Len(inventory) : NoFault /\ addToCart(k)
  \/ \E k \in 1..Len(inventory), delta \in {-1, 1} : NoFault /\ updateCartQuantity(k, delta)
  \/ \E t \in Times : NoFault /\ setPreferredTime(t)
  \/ NoFault /\ orders = <<>> /\ handleSubmit
  \/ NoFault /\ handleSubmitDone
  \/ \E o \in Outcomes : Fault(o) /\ createOrderVendor("form", o)
  \/ \E o \in Outcomes : Fault(o) /\ createOrderInsert("form", o)
  \/ \E o \in Outcomes : Fault(o) /\ createOrderItems("form", o)

SpecDate == InitBooking /\ [][NextDate]_vars

\* one booking form and its cart: the address changes, the inventory loads
\* they start, the cart buttons, and the vendors' stock updates in between
NextCart ==
  \/ \E id \in 1..Len(userAddresses) : NoFault /\ setSelectedAddress(id)
  \/ \E area \in 1..Len(service_areas), o \in Outcomes : Fault(o) /\ loadInventory(area, o)
  \/ \E k \in 1..Len(inventory) : NoFault /\ addToCart(k)
  \/ \E k \in 1..Len(inventory), delta \in {-1, 1} : NoFault /\ updateCartQuantity(k, delta)
  \/ \E i \in 1..Len(inventory), st \in 0..MaxListed, o \in Outcomes :
       Fault(o) /\ updateStock(i, st, o)

SpecCart == InitBooking /\ [][NextCart]_vars

\* one booking form over an inventory that nobody changes: the address
\* changes, the inventory loads they start, each succeeding, in any order
\* of arrival, and the cart buttons
NextLoads ==
  \/ \E id \in 1..Len(userAddresses) : NoFault /\ setSelectedAddress(id)
  \/ \E area \in 1..Len(service_areas) : NoFault /\ loadInventory(area, "ok")
  \/ \E k \in 1..Len(inventory) : NoFault /\ addToCart(k)
  \/ \E k \in 1..Len(inventory), delta \in {-1, 1} : NoFault /\ updateCartQuantity(k, delta)

SpecLoads == InitBooking /\ [][NextLoads]_vars

\* the steps in which a remote call of a running updateStatus of view v
\* returns, with any outcome, and the handler goes on
ViewReturns(v) ==
  \/ \E o \in Outcomes : Fault(o) /\ updateStatusWrite(v, o)
  \/ \E o \in Outcomes : Fault(o) /\ updateStatusInventory(v, o)
  \/ \E o \in Outcomes : Fault(o) /\ updateStatusItem(v, o)
  \/ \E o \in Outcomes : \E bad \in ReadFaults(o) : ReadFault(o, bad) /\ viewReload(v, o, bad)

\* the steps in which a remote call of the createOrder of a submission
\* returns, with any outcome, and handleSubmit goes on after its await
FormReturns ==
  \/ \E o \in Outcomes : Fault(o) /\ createOrderVendor("form", o)
  \/ \E o \in Outcomes : Fault(o) /\ createOrderInsert("form", o)
  \/ \E o \in Outcomes : Fault(o) /\ createOrderItems("form", o)
  \/ NoFault /\ handleSubmitDone

\* the vendor's views, one status change at a time, and the open booking
\* form: the status controls, the form's inputs and submissions, every
\* outcome of every remote call
NextLive ==
  \/ \E v \in Views : NoFault /\ ViewsIdle /\ loadOrders(v, "ok", NoBad)
  \/ \E v \in Views, id \in OrderIdSet, st \in Statuses :
       NoFault /\ ViewsIdle /\ updateStatus(v, id, st)
  \/ \E v \in Views : ViewReturns(v)
  \/ \E area \in 1..Len(service_areas) : NoFault /\ loadInventory(area, "ok")
  \/ \E k \in 1..Len(inventory) : NoFault /\ addToCart(k)
  \/ \E t \in Times : NoFault /\ fSelected # 0 /\ setPreferredTime(t)
  \/ NoFault /\ handleSubmit
  \/ FormReturns

\* every remote call returns and the code after its await runs
FairLive == (\A v \in Views : WF_vars(ViewReturns(v))) /\ WF_vars(FormReturns)

SpecLive == InitLive /\ [][NextLive]_vars /\ FairLive

\* direct calls of createOrder, one at a time, with any status and with or
\* without lines, and the parties' messages, every outcome
NextCreate ==
  \/ \E d \in OtherOrders : NoFault /\ otherCreateOrder(d)
  \/ NoFault /\ otherCreateOrderDone
  \/ \E o \in Outcomes : Fault(o) /\ createOrderVendor("other", o)
  \/ \E o \in Outcomes : Fault(o) /\ createOrderInsert("other", o)
  \/ \E o \in Outcomes : Fault(o) /\ createOrderItems("other", o)
  \/ \E id \in 1..MaxOrders, o \in Outcomes : Fault(o) /\ createOrderMessage(id, o)

\* the same store, no booking form open
InitCreate == BookingDb /\ QuietForm

SpecCreate == InitCreate /\ [][NextCreate]_vars

\* ==================================================================== claims
\* C1: with address requests run one at a time and every remote write
\* succeeding, whenever no request is in flight each user has at most one
\* address with is_default = true.
C1_OneDefaultAfterSequentialCalls == AddrIdle => AtMostOneDefault

\* C2: every inventory item has stock >= 0 in every state of any run of
\* transitions through updateStatus, sequential or interleaved.
C2_StockNeverNegative == \A i \in DOMAIN inventory : inventory[i].stock >= 0

\* a transition to delivered wrote 0 where the subtraction is negative
C2_ClampedWitness ==
  \E v \in Views, i \in DOMAIN inventory :
    /\ vCall[v].fn = "updateStatus" /\ vCall[v].status = "delivered"
    /\ vCall[v].pc = "reload"
    /\ \E k \in 1..Len(vCall[v].order.items) :
         /\ vCall[v].order.items[k].id = i
         /\ i \in DOMAIN vCall[v].inv
         /\ vCall[v].inv[i] < vCall[v].order.items[k].quantity
    /\ inventory[i].stock = 0

\* ------------------------------------------------------------------ C3
ItemsPending(k) == \E c \in Callers : coCall[c].pc = "items" /\ coCall[c].orderId = k

\* C3: every order row that createOrder persisted from an input with N
\* line items has exactly N order_items rows once that call is over.
C3_ExactlyNItemRows ==
  \A k \in 1..Len(orders) : ~ItemsPending(k) => Len(OrderItemsOf(k)) = created[k].n

\* ------------------------------------------------------------------ C4
\* the price of the cart line of an item in the cart handed to createOrder
CartLinePrice(items, id) == items[CHOOSE j \in 1..Len(items) : items[j].id = id].price

FormRow(r) == created'[r.order_id].caller = "form"

\* C4 as stated: each order_items row of an order created through the
\* booking form carries the price the inventory item had when the order
\* row was created, and no later step changes a stored row.
C4_PriceAtCreation ==
  [][\A j \in 1..Len(order_items') :
       LET r == order_items'[j] IN
       /\ j <= Len(order_items) => r = order_items[j]
       /\ FormRow(r) => r.price = created'[r.order_id].livePrice[r.inventory_item_id]]_vars

\* C4 as amended: each order_items row of an order created through the
\* booking form carries the price of its cart line at submission, which is
\* a price the item has had (the one in the list the form had loaded when
\* the item was added to the cart), and no later step changes a stored row.
C4_PriceIsCartSnapshot ==
  [][\A j \in 1..Len(order_items') :
       LET r == order_items'[j] IN
       /\ j <= Len(order_items) => r = order_items[j]
       /\ FormRow(r) =>
            /\ r.price = CartLinePrice(created'[r.order_id].items, r.inventory_item_id)
            /\ r.price \in prices'[r.inventory_item_id]]_vars

\* a stored row of a form order whose price is not the price the item had
\* when the order was created, with the item's price changed again since
C4_StalePriceWitness ==
  \E j \in 1..Len(order_items) :
    LET r == order_items[j] IN
    /\ created[r.order_id].caller = "form"
    /\ r.price # created[r.order_id].livePrice[r.inventory_item_id]
    /\ r.price # inventory[r.inventory_item_id].price

\* C5: a status write of a view never lands on an order whose stored status
\* is cancelled (so a cancelled order stays cancelled).
C5_CancelledNeverWritten ==
  [][\A v \in Views :
       (vCall[v].pc = "status" /\ vCall'[v].pc \in {"inventory", "reload"})
         => orders[vCall[v].orderId].status # "cancelled"]_vars

\* the quantity that deliveredCalls completed transitions subtract from item i
RECURSIVE Subtracted(_, _)
Subtracted(i, n) ==
  IF n = 0 THEN 0
  ELSE Subtracted(i, n - 1) +
       (IF order_items[n].inventory_item_id = i
        THEN deliveredCalls[order_items[n].order_id] * order_items[n].quantity ELSE 0)

\* C6: with the handlers run one at a time and every remote call succeeding,
\* after k completed updateStatus(order, 'delivered') calls an item of the
\* vendor's inventory with initial stock s and line quantity q has stock
\* max(0, s - k*q): every such call subtracts again.
C6_DeliveredSubtractsEveryTime ==
  (ViewsIdle /\ \A o \in OrderIdSet : deliveredCalls[o] < MaxDeliveries) =>
    \A i \in DOMAIN VendorInventory(ViewUser) :
      inventory[i].stock = Max(0, stock0[i] - Subtracted(i, Len(order_items)))

\* stock MaxStock, quantity MaxQty: two completed calls have subtracted twice
C6_TwiceWitness ==
  /\ ViewsIdle /\ deliveredCalls[1] = 2
  /\ stock0[1] = MaxStock
  /\ inventory[1].stock = MaxStock - 2 * MaxQty
  /\ orders[1].status = "delivered"

\* C7: a composite read whose primary query succeeds and matches no order
\* row returns the empty list, error null, and issues no sub-read.
C7_EmptyReadIsEmptyList ==
  (lastRead.fn # "none" /\ lastRead.matched = 0 /\ lastRead.primary = "ok") =>
    /\ ~lastRead.dataNull /\ lastRead.data = <<>>
    /\ lastRead.error = Null /\ lastRead.subReads = 0

\* getOrdersByVendor returned for a vendor without orders while others have some
C7_EmptyReadWitness ==
  /\ lastRead.fn = "getOrdersByVendor" /\ lastRead.matched = 0
  /\ lastRead.primary = "ok" /\ Len(orders) > 0

\* ------------------------------------------------------------------ C8
\* the requirements of handleSubmit other than the vendor id
SubmitRequirements ==
  /\ fSelected # 0 /\ Len(fCart) # 0 /\ Trim(fTime) # ""
  /\ ~fLoading /\ orders = <<>>

\* C8: whenever the requirements hold and the loaded list has a first item,
\* the form can call createOrder; the call carries that item's vendor and
\* the selected address's area, and the order row stored for the call
\* carries the same two values, whichever vendor owns the area.
C8_NoAreaRevalidation ==
  [][/\ (SubmitRequirements /\ Len(fInventory) > 0) =>
          ENABLED (handleSubmit /\ coCall'["form"].pc = "vendor")
     /\ (coCall["form"].pc = "idle" /\ coCall'["form"].pc = "vendor") =>
          /\ coCall'["form"].data.vendorId = fInventory[1].vendorId
          /\ coCall'["form"].data.areaId = AddressArea(fSelected)
     /\ (coCall["form"].pc = "order" /\ Len(orders') > Len(orders)) =>
          /\ orders'[Len(orders')].vendor_id = coCall["form"].data.vendorId
          /\ orders'[Len(orders')].area_id = coCall["form"].data.areaId]_vars

\* a stored order of the form whose vendor does not own the order's area
C8_ForeignAreaWitness ==
  \E k \in 1..Len(orders) :
    /\ created[k].caller = "form"
    /\ orders[k].vendor_id # service_areas[orders[k].area_id].vendor_id

\* ------------------------------------------------------------------ C9
\* C9: a domain function in which a remote call failed, by a returned
\* error or by a throw, returns a non-null error and null data.
C9_FailedCallReportsError ==
  \A c \in Clients :
    addrRet[c].failed => addrRet[c].error # Null /\ addrRet[c].data = Null

\* ----------------------------------------------------------------- C10
\* C10: an order row that createOrder inserts has status pending, whatever
\* status the caller passed, and no order_messages row refers to it yet.
C10_CreatedPendingNoMessages ==
  [][\A k \in (Len(orders) + 1)..Len(orders') :
       /\ orders'[k].status = "pending"
       /\ \A m \in 1..Len(order_messages') : order_messages'[m].order_id # k]_vars

\* an order stored as pending from a call that passed delivered, with no
\* message, while another order has one
C10_OtherStatusWitness ==
  \E k \in 1..Len(orders) :
    /\ created[k].status = "delivered" /\ orders[k].status = "pending"
    /\ Len(order_messages) > 0
    /\ \A m \in 1..Len(order_messages) : order_messages[m].order_id # k

\* ----------------------------------------------------------------- C11
\* C11: order_items rows refer to order rows that exist (the order row is
\* inserted first), and a createOrder call whose items insert failed
\* returns data null with the error while its order row stays, without items.
C11_ItemsFailureKeepsOrder ==
  /\ \A j \in 1..Len(order_items) : order_items[j].order_id \in 1..Len(orders)
  /\ \A k \in Callers :
       (coCall[k].pc = "returned" /\ coCall[k].orderId # 0 /\ coCall[k].error # Null) =>
         /\ coCall[k].result = Null
         /\ coCall[k].orderId \in 1..Len(orders)
         /\ orders[coCall[k].orderId].customer_id = coCall[k].data.customerId
         /\ OrderItemsOf(coCall[k].orderId) = <<>>

\* a call with one line returned the items error; its order row is stored
C11_ItemsFailureWitness ==
  \E k \in Callers :
    /\ coCall[k].pc = "returned" /\ coCall[k].orderId # 0 /\ coCall[k].error = "error"
    /\ Len(coCall[k].data.items) = 1
    /\ Len(orders) = coCall[k].orderId

\* ----------------------------------------------------------------- C12
\* C12: a step that changes the inventory is the item write of a transition
\* to delivered; it changes the stock of one item, which matches a line of
\* that order, to max(0, stock read by the handler - the line's quantity).
\* Status updates to other values, invoice generation and messages leave
\* every inventory row as it is.
C12_OnlyDeliveredAdjustsStock ==
  [][\A i \in DOMAIN inventory :
       inventory'[i] # inventory[i] =>
         \E v \in Views :
           /\ vCall[v].fn = "updateStatus" /\ vCall[v].status = "delivered"
           /\ vCall[v].pc = "items" /\ vCall'[v] # vCall[v]
           /\ \E j \in 1..Len(order_items) :
                /\ order_items[j].order_id = vCall[v].orderId
                /\ order_items[j].inventory_item_id = i
                /\ inventory'[i] =
                     [inventory[i] EXCEPT
                        !.stock = Max(0, vCall[v].inv[i] - order_items[j].quantity)]]_vars

\* a message has been stored and a transition to delivered has lowered a stock
C12_AdjustedWitness ==
  /\ Len(order_messages) > 0
  /\ \E v \in Views : vCall[v].fn = "updateStatus" /\ vCall[v].status = "delivered"
                      /\ vCall[v].pc = "reload"
  /\ \E i \in DOMAIN inventory : inventory[i].stock < stock0[i]

\* ----------------------------------------------------------------- C13
\* C13: an updateOrderStatus call by the order's vendor on a stored order,
\* whose remote call goes through, returns no error and stores the target
\* status, whatever the status was before.
C13_NoTransitionRejected ==
  (/\ lastCall.fn = "updateOrderStatus" /\ lastCall.outcome = "ok"
   /\ lastCall.arg \in 1..Len(orders)
   /\ orders[lastCall.arg].vendor_id = lastCall.caller) =>
    /\ lastCall.error = Null
    /\ orders[lastCall.arg].status = lastCall.status

\* a cancelled order has been moved back to pending
C13_ReopenedWitness ==
  /\ lastCall.fn = "updateOrderStatus" /\ lastCall.error = Null
  /\ lastCall.before = "cancelled" /\ lastCall.status = "pending"
  /\ orders[lastCall.arg].status = "pending"

\* ------------------------------------------------------------------ C15
\* C15: a step in which the booking form's createOrder call begins is taken
\* only from a state with an address selected, a cart that is not empty and
\* a preferred time that is not blank once trimmed, and the call carries
\* that address, cart and time; from every other state no such call begins.
C15_SubmitOnlyWhenComplete ==
  [][(coCall["form"].pc = "idle" /\ coCall'["form"].pc # "idle") =>
       /\ fSelected # 0 /\ Len(fCart) # 0 /\ Trim(fTime) # ""
       /\ coCall'["form"].data.addressId = fSelected
       /\ coCall'["form"].data.items = fCart
       /\ coCall'["form"].data.preferredTime = fTime]_vars

\* the form has submitted once, the call failed, and it now holds a cart and
\* a blank preferred time: "Place Order" is shown and enabled
C15_BlankTimeWitness ==
  /\ fSubmitted.day # 0 /\ coCall["form"].pc = "idle" /\ ~fLoading
  /\ fSelected # 0 /\ Len(fCart) # 0 /\ fTime = " "
  /\ ResolveVendor(fInventory) # Null

\* ------------------------------------------------------------------ C16
\* C16: an order row stored for the booking form carries a delivery date
\* that is not earlier than the day after the date on which the form was
\* submitted, whatever edits of the date came before.
C16_DateAfterToday ==
  \A k \in 1..Len(orders) :
    (created[k].caller = "form" /\ coCall["form"].orderId = k) =>
      orders[k].delivery_date >= fSubmitted.day + 1

\* ------------------------------------------------------------------ C17
\* C17: the step in which handleSubmit resumes after createOrder leaves the
\* cart empty when createOrder returned no error; when it returned an error
\* or threw, the step leaves the cart, the selected address, the delivery
\* date and the preferred time as they were.
C17_FailureKeepsForm ==
  [][(coCall["form"].pc = "returned" /\ coCall'["form"].pc = "idle") =>
       IF coCall["form"].error = Null
       THEN fCart' = <<>>
       ELSE UNCHANGED <<fCart, fSelected, fDate, fTime>>]_vars

\* a submission has failed before any order was stored, and the form holds
\* what it held when it was submitted
C17_RetryWitness ==
  /\ fSubmitted.day # 0 /\ coCall["form"].pc = "idle" /\ orders = <<>>
  /\ fCart = fSubmitted.cart /\ Len(fCart) # 0
  /\ fSelected = fSubmitted.selected /\ fDate = fSubmitted.date
  /\ fTime = fSubmitted.time

\* ------------------------------------------------------------------ C18
\* the sum of price * quantity over the first n order_items rows that
\* belong to order id
RECURSIVE RowsTotal(_, _, _)
RowsTotal(rows, id, n) ==
  IF n = 0 THEN 0
  ELSE RowsTotal(rows, id, n - 1)
       + (IF rows[n].order_id = id THEN rows[n].price * rows[n].quantity ELSE 0)

\* C18: the total the booking form sends is the sum of price * quantity over
\* the cart it is submitted with, and once the call has returned the total
\* of the stored order row is the sum of price * quantity over the order's
\* stored item rows.
C18_TotalIsSumOfRows ==
  /\ coCall["form"].pc # "idle" =>
       /\ coCall["form"].data.items = fSubmitted.cart
       /\ coCall["form"].data.total = CartTotal(fSubmitted.cart, Len(fSubmitted.cart))
  /\ \A k \in 1..Len(orders) :
       (created[k].caller = "form" /\ ~(coCall["form"].pc = "items" /\ coCall["form"].orderId = k)) =>
         orders[k].total = RowsTotal(order_items, k, Len(order_items))

\* ------------------------------------------------------------------ C19
\* C19: every cart entry has a quantity of at least 1 and of at most the
\* stock of the item with its id in the loaded inventory list, after any
\* sequence of cart buttons, address changes and inventory loads.
C19_CartWithinStock ==
  \A k \in 1..Len(fCart) :
    /\ fCart[k].quantity >= 1
    /\ \A j \in 1..Len(fInventory) :
         fInventory[j].id = fCart[k].id => fCart[k].quantity <= fInventory[j].stock

\* ------------------------------------------------------------------ C20
\* C20: the remote write of generateInvoice inserts no invoice row and
\* leaves every order row, its invoice_id and its status included, as it
\* was stored immediately before, in every view and after any sequence of
\* actions of the views.
C20_InvoiceWritesNothing ==
  [][\A v \in Views :
       (vCall[v].fn = "generateInvoice" /\ vCall[v].pc = "status" /\ vCall'[v].pc # "status")
         => (invoices' = invoices /\ orders' = orders)]_vars

\* ------------------------------------------------------------------ C21
\* what a composite read that issued its sub-reads returns for order id
\* when no sub-read of that order fails
FullEntry(id) ==
  [id |-> id, status |-> orders[id].status, invoice_id |-> orders[id].invoice_id,
   order_items |-> OrderItemsOf(id), order_messages |-> OrderMessagesOf(id),
   address |-> orders[id].address_id]

\* the entry with the field of the failed sub-read at its default
DegradedEntry(id, kind) ==
  [FullEntry(id) EXCEPT !.order_items = IF kind = "items" THEN <<>> ELSE @,
                        !.order_messages = IF kind = "messages" THEN <<>> ELSE @,
                        !.address = IF kind = "address" THEN 0 ELSE @]

\* the read returned every matched order, error null, the order of the
\* failed sub-read with that field degraded and every other order in full
ReadDegraded ==
  /\ ~lastRead.dataNull /\ lastRead.error = Null
  /\ Len(lastRead.data) = lastRead.matched
  /\ \A k \in 1..Len(lastRead.data) :
       LET e == lastRead.data[k] IN
       e = IF e.id = lastRead.bad.order THEN DegradedEntry(e.id, lastRead.bad.kind)
           ELSE FullEntry(e.id)
  /\ \E k \in 1..Len(lastRead.data) : lastRead.data[k].id = lastRead.bad.order

\* C21 as stated: whenever one sub-read of a composite read has failed, in
\* either way, the read returns every order, the one concerned degraded.
C21_SubReadFailureDegrades ==
  (lastRead.fn # "none" /\ lastRead.bad # NoBad) => ReadDegraded

\* C21 amended: when one sub-read returns an error the read returns every
\* order, error null, the one concerned with that field at its default and
\* the others in full; when the sub-read rejects the read returns null
\* data and the exception as its error.
C21_SubReadErrorDegrades ==
  (lastRead.fn # "none" /\ lastRead.bad # NoBad) =>
    IF lastRead.bad.how = "err" THEN ReadDegraded
    ELSE lastRead.dataNull /\ lastRead.error = "exception"

\* a read of two orders of one user returned after the items sub-read of
\* one of them gave an error
C21_DegradedWitness ==
  /\ lastRead.bad # NoBad /\ lastRead.bad.how = "err" /\ lastRead.bad.kind = "items"
  /\ lastRead.matched = 2 /\ Len(lastRead.data) = 2
  /\ \E k \in 1..2 : lastRead.data[k].order_items = <<>>
  /\ \E k \in 1..2 : lastRead.data[k].order_items # <<>>

\* ------------------------------------------------------------------ C22
\* view v is in a transition to delivered that has got past its item writes
DeliveredWritten(v) ==
  /\ vCall[v].fn = "updateStatus" /\ vCall[v].status = "delivered"
  /\ vCall[v].pc = "reload" /\ vCall[v].inv # <<>>

\* the quantity of the order line of item i in the order view v works on
LineQuantity(v, i) ==
  LET items == vCall[v].order.items
      hits == {k \in 1..Len(items) : items[k].id = i} IN
  IF hits = {} THEN 0 ELSE items[CHOOSE k \in hits : TRUE].quantity

\* two views deliver two different orders that both have a line of item i,
\* and both handlers have read the same stock of i and written
BothReadSame(i) ==
  /\ DeliveredWritten(1) /\ DeliveredWritten(2)
  /\ vCall[1].orderId # vCall[2].orderId
  /\ i \in DOMAIN vCall[1].inv /\ i \in DOMAIN vCall[2].inv
  /\ vCall[1].inv[i] = vCall[2].inv[i]
  /\ LineQuantity(1, i) > 0 /\ LineQuantity(2, i) > 0

\* C22: when two concurrent transitions to delivered of two orders with a
\* line of the same item have both read the same stock s and every write
\* has gone through, the stock is max(0, s - q) for the quantity q of one
\* of the two orders: the other subtraction is lost.
C22_LostUpdate ==
  \A i \in DOMAIN inventory :
    (faults = 0 /\ BothReadSame(i)) =>
      \E v \in Views : inventory[i].stock = Max(0, vCall[v].inv[i] - LineQuantity(v, i))

\* both handlers read stock MaxStock, and the stock left is not what the two
\* subtractions together would give
C22_LostUpdateWitness ==
  /\ faults = 0 /\ BothReadSame(1) /\ vCall[1].inv[1] = MaxStock
  /\ inventory[1].stock
       # Max(0, MaxStock - LineQuantity(1, 1) - LineQuantity(2, 1))
  /\ orders[1].status = "delivered" /\ orders[2].status = "delivered"

\* ------------------------------------------------------------------ C23
\* the address the final write of client c's request writes
WriteTarget(c) ==
  IF addrCall[c].fn = "update" THEN addrCall[c].id ELSE Cardinality(DOMAIN addresses) + 1

\* C23: the final write of a default-setting request (the insert of
\* createAddress, the update of updateAddress) that goes through makes its
\* own address a default and leaves every other address as it is, a default
\* that a concurrent request has set in the meantime included: two
\* interleaved requests leave two defaults.
C23_WriteKeepsOtherDefaults ==
  [][\A c \in Clients :
       (/\ addrCall[c].pc \in {"write", "insert"} /\ addrCall[c].isDefault = "true"
        /\ addrCall'[c].fn = "none" /\ addrRet'[c].error = Null) =>
         /\ addresses'[WriteTarget(c)].is_default
         /\ \A a \in DOMAIN addresses \ {WriteTarget(c)} : addresses'[a] = addresses[a]]_vars

\* both clients' default-setting requests have returned a row and no call
\* of either failed, and the user has two default addresses
C23_TwoDefaultsWitness ==
  /\ AddrIdle
  /\ \A c \in Clients : addrRet[c].data = "row" /\ ~addrRet[c].failed
  /\ Cardinality(DefaultsOf(RaceUser)) = 2

\* ------------------------------------------------------------------ C24
\* no request is in flight and both clients' requests have returned a row
RaceOver ==
  /\ AddrIdle
  /\ \A c \in Clients : addrRet[c].data = "row" /\ ~addrRet[c].failed

\* C24 as stated, for the state the requests leave: after the default-setting
\* requests of the two clients for one user, all of whose remote writes
\* succeeded, have returned, no address of the user is a default.
C24_RaceLeavesNoDefault == RaceOver => DefaultsOf(RaceUser) = {}

\* C24 amended: whenever the default-setting requests of one user, all of
\* whose remote calls succeed, have returned, at least one address of the
\* user is a default, however their steps interleaved.
C24_RaceLeavesADefault ==
  (AddrIdle /\ \E c \in Clients : addrRet[c].data = "row") => DefaultsOf(RaceUser) # {}

\* both requests have run their clearing step and neither its final write:
\* for the moment no address is a default
C24_BothClearedWitness ==
  /\ \A c \in Clients : addrCall[c].pc \in {"write", "insert"} /\ addrCall[c].isDefault = "true"
  /\ DefaultsOf(RaceUser) = {}

\* ------------------------------------------------------------------ C25
\* the step in which the order-status update of a transition to delivered
\* of view v fails and the handler ends
StatusFailedEnd(v) ==
  /\ vCall[v].fn = "updateStatus" /\ vCall[v].status = "delivered"
  /\ vCall[v].pc = "status" /\ vCall'[v].fn = "none"

\* C25 as stated, for the state the run leaves: a run of
\* updateStatus(order, 'delivered') whose order-status update failed ends
\* with a stock decremented.
C25_StockDownStatusFailed ==
  [][\A v \in Views :
       StatusFailedEnd(v) => \E i \in DOMAIN inventory : inventory'[i].stock < stock0[i]]_vars

\* C25 amended: with the handlers run one at a time, a stock is written only
\* by a run of updateStatus(order, 'delivered') whose status update has
\* gone through (the order is stored as delivered); the stock write leaves
\* the order row as it is, so a failed stock write leaves the order
\* delivered with the stock not decremented.
C25_StockOnlyAfterStatus ==
  [][\A i \in DOMAIN inventory :
       inventory'[i] # inventory[i] =>
         \E v \in Views :
           /\ vCall[v].fn = "updateStatus" /\ vCall[v].pc = "items" /\ vCall'[v] # vCall[v]
           /\ orders[vCall[v].orderId].status = "delivered"
           /\ orders' = orders]_vars

\* a run is past its item writes with the order stored as delivered and
\* the stock of its first line as it was: the stock write failed
C25_DeliveredStockKeptWitness ==
  \E v \in Views :
    /\ vCall[v].fn = "updateStatus" /\ vCall[v].status = "delivered"
    /\ vCall[v].pc = "reload" /\ 1 \in DOMAIN vCall[v].inv
    /\ orders[vCall[v].orderId].status = "delivered"
    /\ inventory[1].stock = stock0[1] /\ inventory[2].stock < stock0[2]
    /\ faults > 0

CallUser(c) ==
  IF addrCall[c].fn = "create" THEN addrCall[c].user
  ELSE IF addrCall[c].id \in DOMAIN addresses THEN addresses[addrCall[c].id].user_id
  ELSE Null

\* C27: with one request at a time, when createAddress or updateAddress
\* with isDefault = true returns a non-null error, the is_default flag of
\* every address the user had when the request was made is what it was then.
C27_FailedCallKeepsDefaults ==
  [][\A c \in Clients :
       (/\ addrCall[c].fn # "none" /\ addrCall'[c].fn = "none"
        /\ addrCall[c].isDefault = "true"
        /\ addrRet'[c].error # Null)
       => \A a \in DOMAIN addrCall[c].before :
            addresses[a].user_id = CallUser(c)
              => addresses'[a].is_default = addrCall[c].before[a]]_vars

\* ------------------------------------------------------------------ C28
\* C28: no step of the order-management views (status buttons, dropdown,
\* generateInvoice, reloads), in one view or several, takes the stored
\* status of an order from a status other than pending to pending.
C28_NeverBackToPending ==
  [][\A k \in DOMAIN orders :
       orders[k].status # "pending" => orders'[k].status # "pending"]_vars

\* ------------------------------------------------------------------ C29
\* C29: over an unchanged inventory and with every load succeeding, when
\* no inventory load is outstanding the loaded list is the inventory of the
\* area of the selected address, in whichever order the responses arrived.
C29_LoadedListIsOfSelectedArea ==
  fLoads = {} => fInventory = AreaInventory(AddressArea(fSelected))

\* ------------------------------------------------------------------ C30
\* C30: when every remote call returns, a view whose updateStatus has set
\* loading, and the booking form whose submission has set loading, get to
\* a state with loading false, whatever the remote calls return (success,
\* a returned error, a thrown exception).
C30_LoadingReleased ==
  /\ \A v \in Views : vLoading[v] ~> ~vLoading[v]
  /\ fLoading ~> ~fLoading

\* loading is set in the form while the createOrder of its submission has
\* returned an exception
C30_LoadingWitness ==
  fLoading /\ coCall["form"].pc = "returned" /\ coCall["form"].error = "exception"

\* the table a delete function works on, as it is now
DeleteTable(fn) ==
  CASE fn = "deleteUser" -> users
    [] fn = "deleteAddress" -> addresses
    [] fn = "deleteInventoryItem" -> inventory
    [] fn = "deleteServiceArea" -> service_areas

DeleteFns == {"deleteUser", "deleteAddress", "deleteInventoryItem", "deleteServiceArea"}

\* C14: a delete function that returned without error has removed no more
\* than one row of its table (the row its identifier names) and has left
\* every other row of that table as it was
C14_DeleteRemovesOneRow ==
  (lastCall.fn \in DeleteFns /\ lastCall.error = Null) =>
    LET before == lastCall.before
        after == DeleteTable(lastCall.fn) IN
    /\ DOMAIN after \subseteq DOMAIN before
    /\ Cardinality(DOMAIN before \ DOMAIN after) <= 1
    /\ \A x \in DOMAIN after : after[x] = before[x]

Next == NextVendor

Spec == InitVendor /\ [][Next]_vars
====
